---- MODULE Spec2Model ----
(***************************************************************************)
(* Collaborative session synchronisation engine of j-rockwell/tc2          *)
(* (server/app/services/exercise_session_service.py, the handlers of       *)
(* server/app/routers/exercise_session_ws.py and the repository            *)
(* server/app/repos/exercise_session.py).                                  *)
(*                                                                         *)
(* Every coroutine is cut at its suspension points: one action is the code *)
(* a task runs between two awaits that can yield to the event loop.  The   *)
(* sections of ExerciseSessionMessageService that run under self._lock     *)
(* are single actions: every access to the three connection maps takes     *)
(* that lock, so nothing observes them half way.  Consecutive awaits on    *)
(* the databases that only read are taken in one action.                   *)
(*                                                                         *)
(* The clients of the model leave the fields "id", "session_id" and        *)
(* "version" out of their messages, so handle_client_op draws the id and   *)
(* takes the session the connection is bound to.  Redis and the database   *)
(* answer every call; stored states do not expire.                         *)
(***************************************************************************)
EXTENDS Integers, Sequences, FiniteSets, TLC

\* ---------------------------------------------------------------- universe
Instances  == {"i1", "i2"}
ConnSeq    == <<"c1", "c2", "c3">>
ConnIds    == {ConnSeq[n] : n \in DOMAIN ConnSeq}
Accounts   == {"a1", "a2"}
SessionIds == {"s1", "s2"}

\* Python's None, and the empty string handle_client_op falls back to.
None  == "none"
Empty == ""

\* the number of client messages the model lets the sockets carry in total
MaxOps == 3

\* the number of client messages of the scenarios with failing sockets
MaxSyncOps == 2

\* the number of items of the states the ordering scenario starts from
MaxItems == 2

\* the number of sockets the model lets end (a failed send, a client that
\* closes)
MaxBreaks == 1

\* the number of texts that are no operation a foreign publisher puts on
\* the bus
MaxBad == 1

\* the number of start() calls the model lets the newer engine take
MaxStarts == 2

\* ------------------------------------------------------- operation kinds
SESSION_JOIN      == "session_join"
SESSION_LEAVE     == "session_leave"
SESSION_UPDATE    == "session_update"
SESSION_SYNC      == "session_sync"
EXERCISE_ADD      == "exercise_add"
EXERCISE_DELETE   == "exercise_delete"
EXERCISE_UPDATE   == "exercise_update"
SET_ADD           == "set_add"
SET_COMPLETE      == "set_complete"
SET_DELETE        == "set_delete"
PARTICIPANT_JOIN  == "participant_join"
PARTICIPANT_LEAVE == "participant_leave"
HEARTBEAT         == "heartbeat"
SYNC_REQUEST      == "sync_request"
SYNC_RESPONSE     == "sync_response"
CURSOR_MOVE       == "cursor_move"

\* the kinds _route_op does not broadcast
NoBroadcastTypes == {HEARTBEAT, SYNC_REQUEST, SYNC_RESPONSE}

\* the kinds whose handler changes a participant state
MutationTypes == {EXERCISE_ADD, EXERCISE_DELETE}

\* ------------------------------------------------- Python dict operations
DictGet(d, k, default) == IF k \in DOMAIN d THEN d[k] ELSE default

DictSet(d, k, v) == [x \in (DOMAIN d) \cup {k} |-> IF x = k THEN v ELSE d[x]]

DictPop(d, k) == [x \in (DOMAIN d) \ {k} |-> d[x]]

EmptyDict == [x \in {} |-> None]

\* d.setdefault(k, set()).add(c)
SetDefaultAdd(d, k, c) == DictSet(d, k, DictGet(d, k, {}) \cup {c})

\* a variant of the discard that keeps the emptied set in the dict
DiscardOnly(d, k, c) == IF DictGet(d, k, {}) = {} THEN d ELSE DictSet(d, k, d[k] \ {c})

\* s = d.get(k); if s: s.discard(c); if not s: d.pop(k, None)
DiscardAndPrune(d, k, c) ==
    IF DictGet(d, k, {}) = {} THEN d
    ELSE IF d[k] \ {c} = {} THEN DictPop(d, k)
    ELSE DictSet(d, k, d[k] \ {c})

\* --------------------------------------------------------------- variables
VARIABLES
    connections,          \* [instance -> dict connection_id -> ESMSConnectionInfo]
    session_connections,  \* [instance -> dict session_id -> set of connection ids]
    account_connections,  \* [instance -> dict account_id -> set of connection ids]
    subs,                 \* [instance -> session channels its pubsub is subscribed to]
    mirror,               \* redis keys esms:connection:<id>: dict id -> entry
    bus,                  \* [instance -> messages redis has queued for its pubsub]
    store,                \* redis keys exercise_session_state:<session>:<account>
    sessions,             \* the documents of collection exercise_sessions
    sock,                 \* [connection -> state of its websocket]
    inbox,                \* [connection -> the frames its client has received]
    pc,                   \* [connection -> where its websocket_endpoint task stands]
    home,                 \* [connection -> the instance that accepted the socket]
    acct,                 \* [connection -> the account the socket authenticated as]
    cur,                  \* [connection -> the operation handle_client_op is handling]
    local,                \* [connection -> the state copy its handler fetched]
    bcast,                \* [connection -> the broadcast_to_session call it is in]
    sends,                \* the send_to_connection tasks of the pending gathers
    seq,                  \* [connection -> the client messages received on it]
    nOps,                 \* the client messages received so far
    accepted,             \* history: [state key -> mutations that completed on it]
    published,            \* history: the operations handed to redis.publish, with
                          \* their channel and the instances subscribed to it then
    carried,              \* history: [connection -> the account id its last
                          \* client message carried, None when it carried none]
    service,              \* [instance -> running, pubsub, pubsub_task of its
                          \* ExerciseSessionMessageService and where its stop() is]
    wire,                 \* an operation on its way through to_json and
                          \* from_json: the operation, its text, the parsed one
    fetched,              \* [connection -> the participants of the session
                          \* document handle_cursor_move fetched]
    stats,                \* [instance -> stats["connections_active"]]
    esm,                  \* the ESMService of the newer engine: its running flag,
                          \* pubsub, listener task and connections, and what
                          \* its start(), stop() and open_connection() calls did
    dropped               \* history: [instance -> the bus messages its listener
                          \* could not parse, and the operations that had been
                          \* published when it met the last of them]

regVars   == <<connections, session_connections, account_connections, subs, mirror, stats>>
dataVars  == <<store, sessions>>
sockVars  == <<sock, inbox>>
taskVars  == <<pc, home, acct, cur, local, bcast>>
busVars   == <<bus, sends>>
histVars  == <<accepted, published, carried, dropped>>
vars == <<regVars, dataVars, sockVars, taskVars, busVars, seq, nOps, histVars, service,
          wire, fetched, esm>>

StateKeys == SessionIds \X Accounts

\* a key redis does not hold / a state a repository call did not find
NoState == [session_id |-> None, account_id |-> None, version |-> 0, items |-> <<>>]

\* the payload of an operation: what it is about (k), and the fields the
\* handlers read or write
Payload(k, item, sid, items) ==
    [k |-> k, item |-> item, set |-> 0, session_id |-> sid, items |-> items]

\* the payload of an operation on an exercise and one of its sets
TargetPayload(k, item, set) == [Payload(k, item, None, <<>>) EXCEPT !.set = set]

NoPayload == Payload(None, 0, None, <<>>)

NoOp == [id |-> 0, type |-> None, session_id |-> Empty, account_id |-> None,
         version |-> 0, instance_id |-> None, correlation_id |-> 0,
         payload |-> NoPayload]

\* a registry mirror entry that is not to be written
NoEntry == [account_id |-> None, session_id |-> None, instance_id |-> None]

NoBcast == [session_id |-> None, op |-> NoOp, exclude |-> None, after |-> None,
            entry |-> NoEntry, targets |-> {}]

\* ExerciseSessionOperation(...)
MakeOp(id, type, sid, account, payload, version, corr, inst) ==
    [id |-> id, type |-> type, session_id |-> sid, account_id |-> account,
     version |-> version, instance_id |-> inst, correlation_id |-> corr,
     payload |-> payload]

\* ------------------------------------------------------ the durable store
\* ExerciseSessionParticipant.cursor of a participant that has none
NoCursor == 0

\* the cursors a client writes into a cursor_move: an exercise and a set
\* (BadCursor stands for a cursor without "set_id")
CursorValues == {1, 2}

BadCursor == 3

\* the handler holds no session document
NoRoster == <<>>

\* ESMService.__init__, and no call made yet
NewEsm ==
    [running |-> FALSE, pubsub |-> FALSE, pubsub_task |-> None, connections |-> EmptyDict,
     starts |-> 0, stopped |-> FALSE, refused |-> [c \in ConnIds |-> None]]

\* a listener that has met no message it could not parse
NoDrop == [count |-> 0, before |-> {}]

\* The session documents the database holds when the instances start: s1 is
\* ACTIVE and both accounts take part in it, s2 is a DRAFT of a2 alone.  An
\* account has at most one ACTIVE session (create_session and
\* accept_session_invite refuse a second one).
InitialSessions ==
    [s \in SessionIds |->
        IF s = "s1"
        THEN [status |-> "active", owner_id |-> "a1", participants |-> {"a1", "a2"},
              cursors |-> [a \in {"a1", "a2"} |-> NoCursor]]
        ELSE [status |-> "draft",  owner_id |-> "a2", participants |-> {"a2"},
              cursors |-> [a \in {"a2"} |-> NoCursor]]]

\* the position of a session in the collection's natural order
SessionRank(s) == IF s = "s1" THEN 1 ELSE 2

IsMember(docs, s, a) == docs[s].owner_id = a \/ a \in docs[s].participants

\* ExerciseSessionRepository.get_active_session_by_user: find_one returns the
\* first matching document
ActiveSessionByUser(docs, a) ==
    LET m == {s \in SessionIds : docs[s].status = "active" /\ IsMember(docs, s, a)}
    IN IF m = {} THEN None
       ELSE CHOOSE s \in m : \A t \in m : SessionRank(s) <= SessionRank(t)

\* ExerciseSessionRepository.get_active_session_state_by_user
ActiveStateByUser(docs, st, a) ==
    LET s == ActiveSessionByUser(docs, a)
    IN IF s = None THEN NoState
       ELSE IF st[<<s, a>>] = NoState THEN NoState
       ELSE IF st[<<s, a>>].session_id = s THEN st[<<s, a>>] ELSE NoState

\* ExerciseSessionState(session_id=..., account_id=..., version=0)
NewState(s, a) == [session_id |-> s, account_id |-> a, version |-> 0, items |-> <<>>]

\* the service after start(): running, subscribed to the global channel,
\* the listener task created; stop tells where a stop() call stands and todo
\* holds the connection ids of its snapshot it has not disconnected yet
Started == [running |-> TRUE, pubsub |-> TRUE, pubsub_task |-> "running",
            stop |-> "none", todo |-> {}]

\* no operation is being serialized
NoWire == [stage |-> "none"]

Init ==
    /\ connections = [i \in Instances |-> EmptyDict]
    /\ session_connections = [i \in Instances |-> EmptyDict]
    /\ account_connections = [i \in Instances |-> EmptyDict]
    /\ stats = [i \in Instances |-> 0]
    /\ subs = [i \in Instances |-> {}]
    /\ mirror = EmptyDict
    /\ bus = [i \in Instances |-> <<>>]
    /\ store = [k \in StateKeys |-> NoState]
    /\ sessions = InitialSessions
    /\ sock = [c \in ConnIds |-> "unused"]
    /\ inbox = [c \in ConnIds |-> <<>>]
    /\ pc = [c \in ConnIds |-> "new"]
    /\ home = [c \in ConnIds |-> None]
    /\ acct = [c \in ConnIds |-> None]
    /\ cur = [c \in ConnIds |-> NoOp]
    /\ local = [c \in ConnIds |-> NoState]
    /\ bcast = [c \in ConnIds |-> NoBcast]
    /\ sends = {}
    /\ seq = [c \in ConnIds |-> 0]
    /\ nOps = 0
    /\ accepted = [k \in StateKeys |-> 0]
    /\ published = {}
    /\ carried = [c \in ConnIds |-> None]
    /\ dropped = [i \in Instances |-> NoDrop]
    /\ esm = NewEsm
    /\ service = [i \in Instances |-> Started]
    /\ wire = NoWire
    /\ fetched = [c \in ConnIds |-> NoRoster]


\* ------------------------------------------------------- ids of operations
\* op_id="init" and op_id="init_state" of websocket_endpoint
InitId == -1
InitStateId == -2

ConnRank(c) == CHOOSE n \in DOMAIN ConnSeq : ConnSeq[n] = c

\* uuid4(): the values are unique, and the model names them after the
\* connection, the message being handled on it and the call that draws it
Uuid(c, slot) == 100 * ConnRank(c) + 10 * (seq[c] + 1) + slot

\* the id of the operation handle_client_op builds for the next message of c
OpId(c) == Uuid(c, 0)

\* the id of an error reply or of a session_sync sent while handling it
ReplyId(c) == 100 * ConnRank(c) + 10 * seq[c] + 1

\* the ids of the participant_leave and participant_join relays
LeaveRelayId(c) == 100 * ConnRank(c) + 10 * seq[c] + 2
JoinRelayId(c) == 100 * ConnRank(c) + 10 * seq[c] + 3

\* _send_error: the client-error operation of the handlers
ErrorOp(id, account, corr) ==
    MakeOp(id, SESSION_UPDATE, Empty, account, Payload("error", 0, None, <<>>), 0, corr, None)

\* the session_sync operation that carries a participant state
SyncOp(id, sid, account, state, corr) ==
    MakeOp(id, SESSION_SYNC, sid, account, Payload("state", 0, state.session_id, state.items),
           state.version, corr, None)

\* the participant_join / participant_leave relay of join_session / leave_session
RelayOp(id, type, sid, account, inst) ==
    MakeOp(id, type, sid, account, Payload("account", 0, None, <<>>), 0, 0, inst)

\* ----------------------------------------------- the connection registry
\* the locked section of connect(): the maps of instance i after it
ConnectIndex(sc, sid, c) == IF sid # None THEN SetDefaultAdd(sc, sid, c) ELSE sc

\* the channels an instance is subscribed to after a connection was indexed
\* under sid: subscribe only when the session's set was created
SubscribeIfCreated(ch, sc, sid) ==
    IF sid # None /\ sid \notin DOMAIN sc THEN ch \cup {sid} ELSE ch

\* a variant of the discard that leaves the connection in the set
KeepIndexed(sc, sess, c) == sc

\* the session index after a connection bound to sess was discarded from it
UnbindIndex(sc, sess, c) == IF sess # None THEN DiscardAndPrune(sc, sess, c) ELSE sc

\* a variant of the discard that never unsubscribes
KeepSubscription(ch, sc, sess, c) == ch

\* the channels after the discard: unsubscribe when the set became empty
UnsubscribeIfLast(ch, sc, sess, c) ==
    IF sess # None /\ DictGet(sc, sess, {}) # {} /\ sc[sess] \ {c} = {}
    THEN ch \ {sess} ELSE ch

\* ExerciseSessionMessageService.disconnect; why tells what ended the socket
\* ("failed": a send raised, "closed": the client closed it)
DisconnectConn(i, c, why) ==
    IF c \notin DOMAIN connections[i]
    THEN UNCHANGED <<regVars, sock>>
    ELSE LET info == connections[i][c] IN
         /\ account_connections' = [account_connections EXCEPT
                ![i] = DiscardAndPrune(@, info.account_id, c)]
         /\ session_connections' = [session_connections EXCEPT
                ![i] = UnbindIndex(@, info.session_id, c)]
         /\ subs' = [subs EXCEPT
                ![i] = UnsubscribeIfLast(@, session_connections[i], info.session_id, c)]
         /\ connections' = [connections EXCEPT ![i] = DictPop(@, c)]
         /\ stats' = [stats EXCEPT ![i] = @ - 1]
         /\ mirror' = DictPop(mirror, c)
         /\ sock' = [sock EXCEPT ![c] = why]

\* the sockets that have ended
Ended == {d \in ConnIds : sock[d] \in {"failed", "closed"}}

\* a send_text on the socket of c may raise (the peer is gone, the network
\* failed); fail is the outcome the environment picks for a send
MayFail(fail) == fail => Cardinality(Ended) < MaxBreaks

\* what send_to_connection does with the outcome of send_text: the frame
\* reaches the client, or the connection is disconnected
SendOutcome(fail) == IF fail THEN "disconnect" ELSE "deliver"

\* ExerciseSessionMessageService.send_to_connection
SendToConn(i, c, op, fail) ==
    IF c \notin DOMAIN connections[i]
    THEN UNCHANGED <<regVars, sock, inbox>>
    ELSE IF SendOutcome(fail) = "disconnect"
    THEN DisconnectConn(i, c, "failed") /\ UNCHANGED inbox
    ELSE inbox' = [inbox EXCEPT ![c] = Append(@, op)] /\ UNCHANGED <<regVars, sock>>

\* a variant of connect() without its first statement
AlwaysAllowed(svc) == TRUE

\* connect(): "if not self.running or self.pubsub is None: raise RuntimeError"
ConnectAllowed(svc) == svc.running /\ svc.pubsub

\* join_session() and leave_session(): "if not self.running: raise"
Running(i) == service[i].running /\ service[i].pubsub

\* the locked section of connect() and what websocket_endpoint does after it:
\* the registration, the "connected" frame and, for an account with an
\* active session and a state, the init_state frame
Register(c, i, a) ==
    /\ LET sid == ActiveSessionByUser(sessions, a)
           state == ActiveStateByUser(sessions, store, a)
           hello == MakeOp(InitId, SESSION_UPDATE, IF sid = None THEN Empty ELSE sid, a,
                           Payload("connected", 0, sid, <<>>), 0, 0, None)
       IN /\ connections' = [connections EXCEPT
                 ![i] = DictSet(@, c, [account_id |-> a, session_id |-> sid])]
          /\ account_connections' = [account_connections EXCEPT ![i] = SetDefaultAdd(@, a, c)]
          /\ stats' = [stats EXCEPT ![i] = @ + 1]
          /\ session_connections' = [session_connections EXCEPT ![i] = ConnectIndex(@, sid, c)]
          /\ subs' = [subs EXCEPT ![i] = SubscribeIfCreated(@, session_connections[i], sid)]
          /\ mirror' = DictSet(mirror, c, [account_id |-> a, session_id |-> sid, instance_id |-> i])
          /\ inbox' = [inbox EXCEPT ![c] =
                 IF sid # None /\ state # NoState
                 THEN <<hello, SyncOp(InitStateId, sid, a, state, 0)>>
                 ELSE <<hello>>]
    /\ sock' = [sock EXCEPT ![c] = "open"]
    /\ pc' = [pc EXCEPT ![c] = "idle"]
    /\ home' = [home EXCEPT ![c] = i]
    /\ acct' = [acct EXCEPT ![c] = a]
    /\ UNCHANGED <<dataVars, cur, local, bcast, busVars, seq, nOps, histVars, service, wire, fetched, esm>>

\* websocket_endpoint up to its receive loop, for a connect() that does not
\* wait for the lock: accept, connect(), the frames
Connect(c, i, a) ==
    /\ pc[c] = "new"
    /\ \A d \in ConnIds : ConnRank(d) < ConnRank(c) => pc[d] \notin {"new", "connecting"}
    /\ ConnectAllowed(service[i])
    /\ Register(c, i, a)

\* connect() passes its first statement and waits for the lock, which
\* another coroutine holds
ConnectEnter(c, i, a) ==
    /\ pc[c] = "new"
    /\ \A d \in ConnIds : ConnRank(d) < ConnRank(c) => pc[d] \notin {"new", "connecting"}
    /\ ConnectAllowed(service[i])
    /\ pc' = [pc EXCEPT ![c] = "connecting"]
    /\ home' = [home EXCEPT ![c] = i]
    /\ acct' = [acct EXCEPT ![c] = a]
    /\ UNCHANGED <<regVars, dataVars, sockVars, cur, local, bcast, busVars, seq, nOps,
                   histVars, service, wire, fetched, esm>>

\* the connect() that waited acquires the lock and registers
ConnectLocked(c) ==
    /\ pc[c] = "connecting"
    /\ Register(c, home[c], acct[c])

\* connect() raises RuntimeError on a service that is not running; the error
\* leaves websocket_endpoint, whose finally clause has no connection id
ConnectRefused(c, i, a) ==
    /\ pc[c] = "new"
    /\ \A d \in ConnIds : ConnRank(d) < ConnRank(c) => pc[d] \notin {"new", "connecting"}
    /\ ~ConnectAllowed(service[i])
    /\ pc' = [pc EXCEPT ![c] = "closed"]
    /\ sock' = [sock EXCEPT ![c] = "failed"]
    /\ home' = [home EXCEPT ![c] = i]
    /\ acct' = [acct EXCEPT ![c] = a]
    /\ UNCHANGED <<regVars, dataVars, inbox, cur, local, bcast, busVars, seq, nOps,
                   histVars, service, wire, fetched, esm>>

\* websocket_endpoint: the client closes the socket, receive_text raises
\* WebSocketDisconnect, the loop ends and the finally clause disconnects
EndpointClose(c) ==
    /\ pc[c] = "idle"
    /\ sock[c] = "open"
    /\ Cardinality(Ended) < MaxBreaks
    /\ DisconnectConn(home[c], c, "closed")
    /\ pc' = [pc EXCEPT ![c] = "closed"]
    /\ UNCHANGED <<dataVars, inbox, home, acct, cur, local, bcast, busVars, seq, nOps, histVars, service,
                   wire, fetched, esm>>


\* ------------------------------------------------------------ dispatching
\* the session ids a client writes into the "session_id" field of a message
\* (None: the field is left out)
MsgSessionIds == {None}

\* the values of the "session_id" field: a session id, or None when the
\* field is left out
FieldSessionIds == SessionIds \cup {None}

\* the values of the "account_id" field of a client message: an account, or
\* None when the field is left out
FieldAccounts == Accounts \cup {None}

\* a variant of the actor that trusts the message
TrustedActor(info, claimed) == IF claimed # None THEN claimed ELSE info.account_id

\* account_id=info.account_id: the actor of an operation is the account of
\* the connection, whatever the message carries
ActorId(info, claimed) == info.account_id

\* handle_client_op: the operation built from a client message that carries
\* the account id claimed; the session defaults to the bound one
ClientOpAs(id, i, c, type, msid, payload, claimed) ==
    LET info == connections[i][c] IN
    MakeOp(id, type,
           IF msid # None THEN msid
           ELSE IF info.session_id # None THEN info.session_id ELSE Empty,
           ActorId(info, claimed), payload, 0, 0, i)

\* the operation built from a client message without an "account_id" field
ClientOp(id, i, c, type, msid, payload) == ClientOpAs(id, i, c, type, msid, payload, None)

\* a variant of _route_op that broadcasts every kind
BroadcastsAll(op) == op.session_id # Empty

\* _route_op after the handlers ran: is the operation broadcast?
RouteBroadcasts(op) == op.session_id # Empty /\ op.type \notin NoBroadcastTypes

\* the broadcast_to_session call of _route_op
RouteBcast(c, op) ==
    IF RouteBroadcasts(op)
    THEN [session_id |-> op.session_id, op |-> op, exclude |-> c, after |-> "idle",
          entry |-> NoEntry, targets |-> {}]
    ELSE NoBcast

RoutePc(op) == IF RouteBroadcasts(op) THEN "bcast" ELSE "idle"

\* where the task of c goes on when a broadcast it awaited returns
ResumePc(c, after) == IF after = "route" THEN RoutePc(cur[c]) ELSE after

ResumeBcast(c, after) == IF after = "route" THEN RouteBcast(c, cur[c]) ELSE NoBcast

\* a variant of the endpoint that reads the next message while the last one
\* is being handled
CanOverlap(c) ==
    /\ pc[c] \notin {"new", "connecting", "closed"}
    /\ sock[c] = "open"
    /\ c \in DOMAIN connections[home[c]]
    /\ nOps < MaxOps

\* a client message can be received: the endpoint is in receive_text, the
\* socket is open and the connection is registered
CanReceive(c) ==
    /\ pc[c] = "idle"
    /\ sock[c] = "open"
    /\ c \in DOMAIN connections[home[c]]
    /\ nOps < MaxOps

\* a message of a kind without a registered handler (heartbeat)
ReceiveOther(c, msid) ==
    /\ CanReceive(c)
    /\ LET op == ClientOp(OpId(c), home[c], c, HEARTBEAT, msid, NoPayload)
       IN /\ pc' = [pc EXCEPT ![c] = RoutePc(op)]
          /\ bcast' = [bcast EXCEPT ![c] = RouteBcast(c, op)]
          /\ cur' = [cur EXCEPT ![c] = op]
    /\ seq' = [seq EXCEPT ![c] = @ + 1]
    /\ nOps' = nOps + 1
    /\ carried' = [carried EXCEPT ![c] = None]
    /\ UNCHANGED <<regVars, dataVars, sockVars, home, acct, local, busVars, accepted, dropped, published, service,
                   wire, fetched, esm>>

\* session_join: handle_session_join up to the first locked section of
\* join_session (the session is looked up, access is checked, old is read);
\* on a service that is not running join_session raises, _route_op logs the
\* error and goes on
ReceiveJoin(c, msid, target, fail) ==
    /\ CanReceive(c)
    /\ MayFail(fail)
    /\ LET i == home[c]
           op == ClientOp(OpId(c), i, c, SESSION_JOIN, msid,
                          Payload("join", 0, target, <<>>))
           old == connections[i][c].session_id
       IN /\ cur' = [cur EXCEPT ![c] = op]
          /\ IF ~IsMember(sessions, target, op.account_id)
             THEN /\ SendToConn(i, c, ErrorOp(Uuid(c, 1), op.account_id, op.id), fail)
                  /\ pc' = [pc EXCEPT ![c] = RoutePc(op)]
                  /\ bcast' = [bcast EXCEPT ![c] = RouteBcast(c, op)]
             ELSE IF ~Running(i)
             THEN /\ pc' = [pc EXCEPT ![c] = RoutePc(op)]
                  /\ bcast' = [bcast EXCEPT ![c] = RouteBcast(c, op)]
                  /\ UNCHANGED <<regVars, sockVars>>
             ELSE /\ pc' = [pc EXCEPT ![c] =
                        IF old # None /\ old # target THEN "join_leave" ELSE "join_bind"]
                  /\ UNCHANGED <<regVars, sockVars, bcast>>
    /\ seq' = [seq EXCEPT ![c] = @ + 1]
    /\ nOps' = nOps + 1
    /\ carried' = [carried EXCEPT ![c] = None]
    /\ UNCHANGED <<dataVars, home, acct, local, busVars, accepted, dropped, published, service, wire, fetched, esm>>

\* the locked section of leave_session, and the call that follows it
LeaveLocked(c, after, relay) ==
    LET i == home[c]
        info == connections[i][c]
        old == info.session_id
    IN /\ connections' = [connections EXCEPT ![i] = DictSet(@, c, [info EXCEPT !.session_id = None])]
       /\ session_connections' = [session_connections EXCEPT ![i] = UnbindIndex(@, old, c)]
       /\ subs' = [subs EXCEPT ![i] = UnsubscribeIfLast(@, session_connections[i], old, c)]
       /\ bcast' = [bcast EXCEPT ![c] =
              [session_id |-> old,
               op |-> RelayOp(relay, PARTICIPANT_LEAVE, old, info.account_id, i),
               exclude |-> None, after |-> after,
               entry |-> [account_id |-> info.account_id, session_id |-> None,
                          instance_id |-> i],
               targets |-> {}]]
       /\ pc' = [pc EXCEPT ![c] = "bcast"]
       /\ UNCHANGED <<account_connections, stats, mirror>>

\* join_session: the implicit leave of the session the connection was bound
\* to; leave_session raises on a service that is not running, which ends the
\* handler
JoinLeave(c) ==
    /\ pc[c] = "join_leave"
    /\ IF ~Running(home[c])
       THEN /\ pc' = [pc EXCEPT ![c] = RoutePc(cur[c])]
            /\ bcast' = [bcast EXCEPT ![c] = RouteBcast(c, cur[c])]
            /\ UNCHANGED regVars
       ELSE IF c \in DOMAIN connections[home[c]] /\ connections[home[c]][c].session_id # None
       THEN LeaveLocked(c, "join_bind", LeaveRelayId(c))
       ELSE /\ pc' = [pc EXCEPT ![c] = "join_bind"]
            /\ UNCHANGED <<regVars, bcast>>
    /\ UNCHANGED <<dataVars, sockVars, home, acct, cur, local, busVars, seq, nOps, histVars, service,
                   wire, fetched, esm>>

\* a variant of join_session that does not index the connection
NoBind(sc, sid, c) == sc

\* the session index after join_session bound c to sid
BindIndex(sc, sid, c) == SetDefaultAdd(sc, sid, c)

\* join_session: the second locked section binds the connection
JoinBind(c) ==
    /\ pc[c] = "join_bind"
    /\ LET i == home[c]
           sid == cur[c].payload.session_id
       IN IF c \in DOMAIN connections[i]
          THEN LET info == connections[i][c] IN
               /\ connections' = [connections EXCEPT
                      ![i] = DictSet(@, c, [info EXCEPT !.session_id = sid])]
               /\ session_connections' = [session_connections EXCEPT ![i] = BindIndex(@, sid, c)]
               /\ subs' = [subs EXCEPT ![i] = SubscribeIfCreated(@, session_connections[i], sid)]
               /\ bcast' = [bcast EXCEPT ![c] =
                      [session_id |-> sid,
                       op |-> RelayOp(JoinRelayId(c), PARTICIPANT_JOIN, sid, info.account_id, i),
                       exclude |-> c, after |-> "join_state",
                       entry |-> [account_id |-> info.account_id, session_id |-> sid,
                                  instance_id |-> i],
                       targets |-> {}]]
               /\ pc' = [pc EXCEPT ![c] = "bcast"]
               /\ UNCHANGED <<account_connections, stats, mirror>>
          ELSE /\ pc' = [pc EXCEPT ![c] = "join_state"]
               /\ UNCHANGED <<regVars, bcast>>
    /\ UNCHANGED <<dataVars, sockVars, home, acct, cur, local, busVars, seq, nOps, histVars, service,
                   wire, fetched, esm>>

\* handle_session_join after join_session: the state of the account's active
\* session is read; when there is one it is pushed as session_sync, else
\* create_session_state is entered (it reads again, then writes)
JoinState(c, fail) ==
    /\ pc[c] = "join_state"
    /\ MayFail(fail)
    /\ LET op == cur[c]
           state == ActiveStateByUser(sessions, store, op.account_id)
       IN IF state # NoState
          THEN /\ SendToConn(home[c], c,
                      SyncOp(ReplyId(c), op.payload.session_id, op.account_id, state, op.id),
                      fail)
               /\ pc' = [pc EXCEPT ![c] = RoutePc(op)]
               /\ bcast' = [bcast EXCEPT ![c] = RouteBcast(c, op)]
          ELSE /\ pc' = [pc EXCEPT ![c] = "join_create"]
               /\ UNCHANGED <<regVars, sockVars, bcast>>
    /\ UNCHANGED <<dataVars, home, acct, cur, local, busVars, seq, nOps, histVars, service, wire, fetched, esm>>

\* create_session_state: the version-0 state is written under the key of the
\* joined session, then pushed as session_sync
JoinCreate(c, fail) ==
    /\ pc[c] = "join_create"
    /\ MayFail(fail)
    /\ LET op == cur[c]
           sid == op.payload.session_id
           state == NewState(sid, op.account_id)
       IN /\ store' = [store EXCEPT ![<<sid, op.account_id>>] = state]
          /\ SendToConn(home[c], c, SyncOp(ReplyId(c), sid, op.account_id, state, op.id), fail)
          /\ pc' = [pc EXCEPT ![c] = RoutePc(op)]
          /\ bcast' = [bcast EXCEPT ![c] = RouteBcast(c, op)]
    /\ UNCHANGED <<sessions, home, acct, cur, local, busVars, seq, nOps, histVars, service, wire, fetched, esm>>

\* session_leave: handle_session_leave runs leave_session
ReceiveLeave(c, msid) ==
    /\ CanReceive(c)
    /\ LET i == home[c]
           op == ClientOp(OpId(c), i, c, SESSION_LEAVE, msid, NoPayload)
       IN /\ cur' = [cur EXCEPT ![c] = op]
          /\ IF Running(i) /\ connections[i][c].session_id # None
             THEN LeaveLocked(c, "route", Uuid(c, 2))
             ELSE /\ pc' = [pc EXCEPT ![c] = RoutePc(op)]
                  /\ bcast' = [bcast EXCEPT ![c] = RouteBcast(c, op)]
                  /\ UNCHANGED regVars
    /\ seq' = [seq EXCEPT ![c] = @ + 1]
    /\ nOps' = nOps + 1
    /\ carried' = [carried EXCEPT ![c] = None]
    /\ UNCHANGED <<dataVars, sockVars, home, acct, local, busVars, accepted, dropped, published, service,
                   wire, fetched, esm>>


\* ------------------------------------------------------ mutation handlers
\* the ids of the items some stored state holds
StoredItemIds == UNION {{store[k].items[n].id : n \in DOMAIN store[k].items} : k \in StateKeys}

\* the exercise_id a client writes into exercise_delete: an item that exists
\* somewhere, or an id that names nothing (0)
DeleteTargets == StoredItemIds \cup {0}

RECURSIVE Without(_, _)
\* [it for it in items if it.id != exercise_id]
Without(items, id) ==
    IF items = <<>> THEN <<>>
    ELSE IF Head(items).id = id THEN Without(Tail(items), id)
    ELSE <<Head(items)>> \o Without(Tail(items), id)

\* a variant of the handler that leaves the order fields as they are
KeepOrders(items) == items

\* for i, it in enumerate(items, 1): it.order = i
Renumber(items) == [n \in DOMAIN items |-> [items[n] EXCEPT !.order = n]]

\* the version a handler gives the state it mutated
BumpVersion(v) == v + 1

\* handle_exercise_add on the fetched state
AddItem(state, id) ==
    [state EXCEPT !.items = Append(@, [id |-> id, order |-> Len(state.items) + 1,
                                       rest |-> 90, sets |-> <<>>]),
                  !.version = BumpVersion(@)]

\* handle_exercise_delete on the fetched state (the item is present)
DeleteItem(state, id) ==
    [state EXCEPT !.items = Renumber(Without(@, id)), !.version = BumpVersion(@)]

\* exercise_add / exercise_delete: the handler up to its first repository call
ReceiveMutation(c, type, msid, item, fail) ==
    /\ CanReceive(c)
    /\ MayFail(fail)
    /\ type \in MutationTypes
    /\ item \in (IF type = EXERCISE_DELETE THEN DeleteTargets ELSE {0})
    /\ LET i == home[c]
           op == ClientOp(OpId(c), i, c, type, msid,
                          Payload(IF type = EXERCISE_ADD THEN "add" ELSE "delete", item, None, <<>>))
       IN /\ cur' = [cur EXCEPT ![c] = op]
          /\ IF op.session_id = Empty
             THEN /\ SendToConn(i, c, ErrorOp(Uuid(c, 1), op.account_id, op.id), fail)
                  /\ pc' = [pc EXCEPT ![c] = RoutePc(op)]
             ELSE /\ pc' = [pc EXCEPT ![c] = "mut_read"]
                  /\ UNCHANGED <<regVars, sockVars>>
    /\ seq' = [seq EXCEPT ![c] = @ + 1]
    /\ nOps' = nOps + 1
    /\ carried' = [carried EXCEPT ![c] = None]
    /\ UNCHANGED <<dataVars, home, acct, local, bcast, busVars, accepted, dropped, published, service, wire, fetched, esm>>

\* the handler fetches the state of the account's active session and mutates
\* its copy; a missing state or a missing target is answered with an error
MutRead(c, fail) ==
    /\ pc[c] = "mut_read"
    /\ MayFail(fail)
    /\ LET op == cur[c]
           state == ActiveStateByUser(sessions, store, op.account_id)
           found == \E n \in DOMAIN state.items : state.items[n].id = op.payload.item
       IN IF state = NoState \/ (op.type = EXERCISE_DELETE /\ ~found)
          THEN /\ SendToConn(home[c], c, ErrorOp(ReplyId(c), op.account_id, op.id), fail)
               /\ pc' = [pc EXCEPT ![c] = RoutePc(op)]
               /\ bcast' = [bcast EXCEPT ![c] = RouteBcast(c, op)]
               /\ UNCHANGED local
          ELSE /\ local' = [local EXCEPT ![c] =
                      IF op.type = EXERCISE_ADD THEN AddItem(state, op.id)
                      ELSE DeleteItem(state, op.payload.item)]
               /\ pc' = [pc EXCEPT ![c] = "mut_write"]
               /\ UNCHANGED <<regVars, sockVars, bcast>>
    /\ UNCHANGED <<dataVars, home, acct, cur, busVars, seq, nOps, histVars, service, wire, fetched, esm>>

\* ExerciseSessionRepository.update_session_state: the copy is written when
\* the session document is found
SavedStore(st, docs, state) ==
    IF state.session_id \in DOMAIN docs
    THEN [st EXCEPT ![<<state.session_id, state.account_id>>] = state]
    ELSE st

\* the operation a mutation handler leaves to _route_op: version and payload
\* are stamped from the mutated copy
Stamped(op, state) ==
    [op EXCEPT !.version = state.version,
               !.payload = IF op.type = EXERCISE_ADD
                           THEN Payload("add", state.items[Len(state.items)].id, None, <<>>)
                           ELSE IF op.type = SET_ADD
                           THEN TargetPayload(SET_ADD, op.payload.item, op.id)
                           ELSE op.payload]

\* the handler saves its copy and stamps the operation; _route_op follows
MutWrite(c) ==
    /\ pc[c] = "mut_write"
    /\ LET op == Stamped(cur[c], local[c])
           key == <<local[c].session_id, local[c].account_id>>
       IN /\ store' = SavedStore(store, sessions, local[c])
          /\ cur' = [cur EXCEPT ![c] = op]
          /\ pc' = [pc EXCEPT ![c] = RoutePc(op)]
          /\ bcast' = [bcast EXCEPT ![c] = RouteBcast(c, op)]
          /\ accepted' = [accepted EXCEPT ![key] = @ + 1]
    /\ local' = [local EXCEPT ![c] = NoState]
    /\ UNCHANGED <<regVars, sessions, sockVars, home, acct, busVars, seq, nOps, published, dropped, carried, service,
                   wire, fetched, esm>>

\* ------------------------------------------- handlers that name a target
\* exercise_update, set_add and set_complete name an exercise of the state
TargetTypes == {EXERCISE_UPDATE, SET_ADD, SET_COMPLETE}

\* the ids of the sets some stored state holds
StoredSetIds ==
    UNION {UNION {{store[k].items[n].sets[m].id : m \in DOMAIN store[k].items[n].sets}
                  : n \in DOMAIN store[k].items} : k \in StateKeys}

\* the set_id a client writes into set_complete: a set that exists
\* somewhere, or an id that names nothing (0)
SetTargets == StoredSetIds \cup {0}

\* the item the loop "for item in state.items: if item.id == exercise_id"
\* stops at
IsFirst(items, n, id) == items[n].id = id /\ \A m \in 1..(n - 1) : items[m].id # id

\* a variant of the search that finds every target
AlwaysFound(state, type, item, set) == TRUE

\* the for ... else of the handlers: is there an item with the exercise_id
\* and, for set_complete, a set with the set_id in an item with that id
TargetFound(state, type, item, set) ==
    IF type = SET_COMPLETE
    THEN \E n \in DOMAIN state.items :
            /\ state.items[n].id = item
            /\ \E m \in DOMAIN state.items[n].sets : state.items[n].sets[m].id = set
    ELSE \E n \in DOMAIN state.items : state.items[n].id = item

\* the loop of handle_exercise_update with updates {"rest": 60}
UpdateItem(items, item) ==
    [n \in DOMAIN items |->
        IF IsFirst(items, n, item) THEN [items[n] EXCEPT !.rest = 60] ELSE items[n]]

\* the order values a client writes into the updates of exercise_update
OrderValues == {1, 2, 7}

\* the loop of handle_exercise_update with updates {"order": v}
ReorderItem(items, item, v) ==
    [n \in DOMAIN items |->
        IF IsFirst(items, n, item) THEN [items[n] EXCEPT !.order = v] ELSE items[n]]

\* the loop of handle_set_add: the new set is appended to the item
AddSet(items, item, id) ==
    [n \in DOMAIN items |->
        IF IsFirst(items, n, item)
        THEN [items[n] EXCEPT !.sets = Append(@, [id |-> id, order |-> Len(@) + 1,
                                                  complete |-> FALSE])]
        ELSE items[n]]

\* the set the loops of handle_set_complete stop at
IsFirstSet(items, n, k, item, set) ==
    /\ items[n].id = item /\ items[n].sets[k].id = set
    /\ \A x \in 1..(n - 1) :
          items[x].id = item => \A y \in DOMAIN items[x].sets : items[x].sets[y].id # set
    /\ \A y \in 1..(k - 1) : items[n].sets[y].id # set

\* the loops of handle_set_complete
CompleteSet(items, item, set) ==
    [n \in DOMAIN items |->
        [items[n] EXCEPT !.sets =
            [k \in DOMAIN items[n].sets |->
                IF IsFirstSet(items, n, k, item, set)
                THEN [items[n].sets[k] EXCEPT !.complete = TRUE]
                ELSE items[n].sets[k]]]]

\* the copy a handler saves: the loops ran over the fetched state (they
\* change nothing when the target is missing) and the version was raised
ApplyTarget(state, op) ==
    LET items == IF op.type = EXERCISE_UPDATE /\ op.payload.k = "update_order"
                 THEN ReorderItem(state.items, op.payload.item, op.payload.set)
                 ELSE IF op.type = EXERCISE_UPDATE THEN UpdateItem(state.items, op.payload.item)
                 ELSE IF op.type = SET_ADD THEN AddSet(state.items, op.payload.item, op.id)
                 ELSE CompleteSet(state.items, op.payload.item, op.payload.set)
    IN [state EXCEPT !.items = items, !.version = BumpVersion(@)]

\* exercise_update / set_add / set_complete: the handler up to its
\* repository call (the client writes exercise_id and set_id)
ReceiveTargeted(c, type, msid, claimed, item, set, fail) ==
    /\ CanReceive(c)
    /\ MayFail(fail)
    /\ type \in TargetTypes
    /\ item \in DeleteTargets
    /\ set \in (IF type = SET_COMPLETE THEN SetTargets ELSE {0})
    /\ LET i == home[c]
           op == ClientOpAs(OpId(c), i, c, type, msid, TargetPayload(type, item, set), claimed)
       IN /\ cur' = [cur EXCEPT ![c] = op]
          /\ IF op.session_id = Empty
             THEN /\ SendToConn(i, c, ErrorOp(Uuid(c, 1), op.account_id, op.id), fail)
                  /\ pc' = [pc EXCEPT ![c] = RoutePc(op)]
             ELSE /\ pc' = [pc EXCEPT ![c] = "tgt_read"]
                  /\ UNCHANGED <<regVars, sockVars>>
    /\ seq' = [seq EXCEPT ![c] = @ + 1]
    /\ nOps' = nOps + 1
    /\ carried' = [carried EXCEPT ![c] = claimed]
    /\ UNCHANGED <<dataVars, home, acct, local, bcast, busVars, accepted, dropped, published, service, wire, fetched, esm>>

\* exercise_update whose updates are {"order": v}; the payload keeps v in
\* its third field
ReceiveReorder(c, msid, item, v) ==
    /\ CanReceive(c)
    /\ item \in DeleteTargets
    /\ v \in OrderValues
    /\ LET i == home[c]
           op == ClientOp(OpId(c), i, c, EXERCISE_UPDATE, msid, TargetPayload("update_order", item, v))
       IN /\ cur' = [cur EXCEPT ![c] = op]
          /\ IF op.session_id = Empty
             THEN /\ SendToConn(i, c, ErrorOp(Uuid(c, 1), op.account_id, op.id), FALSE)
                  /\ pc' = [pc EXCEPT ![c] = RoutePc(op)]
             ELSE /\ pc' = [pc EXCEPT ![c] = "tgt_read"]
                  /\ UNCHANGED <<regVars, sockVars>>
    /\ seq' = [seq EXCEPT ![c] = @ + 1]
    /\ nOps' = nOps + 1
    /\ carried' = [carried EXCEPT ![c] = None]
    /\ UNCHANGED <<dataVars, home, acct, local, bcast, busVars, accepted, dropped, published, service, wire, fetched, esm>>

\* the values a client writes into the "version" field of a message
ClientVersions == {0, 1, 9}

\* exercise_update {"rest": 60} whose message carries a "version":
\* handle_client_op copies it into the operation
ReceiveVersioned(c, msid, item, ver) ==
    /\ CanReceive(c)
    /\ item \in DeleteTargets
    /\ ver \in ClientVersions
    /\ LET i == home[c]
           op == [ClientOp(OpId(c), i, c, EXERCISE_UPDATE, msid,
                           TargetPayload(EXERCISE_UPDATE, item, 0)) EXCEPT !.version = ver]
       IN /\ cur' = [cur EXCEPT ![c] = op]
          /\ IF op.session_id = Empty
             THEN /\ SendToConn(i, c, ErrorOp(Uuid(c, 1), op.account_id, op.id), FALSE)
                  /\ pc' = [pc EXCEPT ![c] = RoutePc(op)]
             ELSE /\ pc' = [pc EXCEPT ![c] = "tgt_read"]
                  /\ UNCHANGED <<regVars, sockVars>>
    /\ seq' = [seq EXCEPT ![c] = @ + 1]
    /\ nOps' = nOps + 1
    /\ carried' = [carried EXCEPT ![c] = None]
    /\ UNCHANGED <<dataVars, home, acct, local, bcast, busVars, accepted, dropped, published, service, wire, fetched, esm>>

\* set_delete: register_esms_handlers registers no handler for the kind, so
\* _route_op runs no handler and goes on to the broadcast
ReceiveSetDelete(c, msid, item, set) ==
    /\ CanReceive(c)
    /\ item \in DeleteTargets
    /\ set \in SetTargets
    /\ LET op == ClientOp(OpId(c), home[c], c, SET_DELETE, msid, TargetPayload(SET_DELETE, item, set))
       IN /\ cur' = [cur EXCEPT ![c] = op]
          /\ pc' = [pc EXCEPT ![c] = RoutePc(op)]
          /\ bcast' = [bcast EXCEPT ![c] = RouteBcast(c, op)]
    /\ seq' = [seq EXCEPT ![c] = @ + 1]
    /\ nOps' = nOps + 1
    /\ carried' = [carried EXCEPT ![c] = None]
    /\ UNCHANGED <<regVars, dataVars, sockVars, home, acct, local, busVars, accepted, dropped, published, service,
                   wire, fetched, esm>>

\* a variant of the handlers that also refuses an operation whose version is
\* lower than the version of the state
RefusedOrStale(state, op) ==
    \/ state = NoState
    \/ ~TargetFound(state, op.type, op.payload.item, op.payload.set)
    \/ op.version < state.version

\* the early returns of a handler once it has fetched the state: "if not
\* state" and the else of its search loop; op.version is not read
Refused(state, op) ==
    \/ state = NoState
    \/ ~TargetFound(state, op.type, op.payload.item, op.payload.set)

\* the handler fetches the state of the account's active session and looks
\* for its target; a missing state or target is answered with an error and
\* the handler returns, else it mutates its copy
TargetRead(c, fail) ==
    /\ pc[c] = "tgt_read"
    /\ MayFail(fail)
    /\ LET op == cur[c]
           state == ActiveStateByUser(sessions, store, op.account_id)
       IN IF Refused(state, op)
          THEN /\ SendToConn(home[c], c, ErrorOp(ReplyId(c), op.account_id, op.id), fail)
               /\ pc' = [pc EXCEPT ![c] = RoutePc(op)]
               /\ bcast' = [bcast EXCEPT ![c] = RouteBcast(c, op)]
               /\ UNCHANGED local
          ELSE /\ local' = [local EXCEPT ![c] = ApplyTarget(state, op)]
               /\ pc' = [pc EXCEPT ![c] = "mut_write"]
               /\ UNCHANGED <<regVars, sockVars, bcast>>
    /\ UNCHANGED <<dataVars, home, acct, cur, busVars, seq, nOps, histVars, service, wire, fetched, esm>>

\* update_session_state when the write does not take effect: Redis.set
\* catches what the client raises and returns False, the repository returns
\* nothing and the handler does not look at it
MutWriteLost(c) ==
    /\ pc[c] = "mut_write"
    /\ LET op == Stamped(cur[c], local[c])
       IN /\ cur' = [cur EXCEPT ![c] = op]
          /\ pc' = [pc EXCEPT ![c] = RoutePc(op)]
          /\ bcast' = [bcast EXCEPT ![c] = RouteBcast(c, op)]
    /\ local' = [local EXCEPT ![c] = NoState]
    /\ UNCHANGED <<regVars, dataVars, sockVars, home, acct, busVars, seq, nOps, histVars, service,
                   wire, fetched, esm>>

\* exercise_add whose "exercise" names a type ExerciseSessionStateItem does
\* not know: the handler raises once it has its state, _route_op catches
\* and logs the exception and goes on to the broadcast
ReceiveBadAdd(c, msid, claimed, fail) ==
    /\ CanReceive(c)
    /\ MayFail(fail)
    /\ LET i == home[c]
           op == ClientOpAs(OpId(c), i, c, EXERCISE_ADD, msid,
                            Payload("add_invalid", 0, None, <<>>), claimed)
           state == ActiveStateByUser(sessions, store, op.account_id)
       IN /\ cur' = [cur EXCEPT ![c] = op]
          /\ IF op.session_id = Empty \/ state = NoState
             THEN SendToConn(i, c, ErrorOp(Uuid(c, 1), op.account_id, op.id), fail)
             ELSE UNCHANGED <<regVars, sockVars>>
          /\ pc' = [pc EXCEPT ![c] = RoutePc(op)]
          /\ bcast' = [bcast EXCEPT ![c] = RouteBcast(c, op)]
    /\ seq' = [seq EXCEPT ![c] = @ + 1]
    /\ nOps' = nOps + 1
    /\ carried' = [carried EXCEPT ![c] = claimed]
    /\ UNCHANGED <<dataVars, home, acct, local, busVars, accepted, dropped, published, service, wire, fetched, esm>>

\* ------------------------------------------------ sync and malformed input
\* the sync_response of handle_sync_request
SyncResponse(id, op, state) ==
    MakeOp(id, SYNC_RESPONSE, op.session_id, op.account_id,
           Payload("sync", 0, state.session_id, state.items), state.version, op.id, None)

\* sync_request: handle_sync_request reads the session and the state and
\* answers the requester; _route_op does not broadcast the kind
ReceiveSync(c, msid, claimed, fail) ==
    /\ CanReceive(c)
    /\ MayFail(fail)
    /\ LET i == home[c]
           op == ClientOpAs(OpId(c), i, c, SYNC_REQUEST, msid, NoPayload, claimed)
           state == ActiveStateByUser(sessions, store, op.account_id)
       IN /\ cur' = [cur EXCEPT ![c] = op]
          /\ IF op.session_id = Empty \/ state = NoState
             THEN SendToConn(i, c, ErrorOp(Uuid(c, 1), op.account_id, op.id), fail)
             ELSE SendToConn(i, c, SyncResponse(Uuid(c, 1), op, state), fail)
          /\ pc' = [pc EXCEPT ![c] = RoutePc(op)]
          /\ bcast' = [bcast EXCEPT ![c] = RouteBcast(c, op)]
    /\ seq' = [seq EXCEPT ![c] = @ + 1]
    /\ nOps' = nOps + 1
    /\ carried' = [carried EXCEPT ![c] = claimed]
    /\ UNCHANGED <<dataVars, home, acct, local, busVars, accepted, dropped, published, service, wire, fetched, esm>>

\* the inbound texts that do not decode into an operation
MalformedKinds == {"invalid_json", "missing_type", "unknown_type"}

\* the reply to a malformed text: _send_error of the endpoint for a text
\* that is not JSON or has no "type", the error operation of
\* handle_client_op for a "type" that ExerciseSessionOperationType rejects
MalformedReply(id, i, c, kind) ==
    LET info == connections[i][c] IN
    IF kind = "unknown_type"
    THEN MakeOp(id, SESSION_UPDATE, IF info.session_id # None THEN info.session_id ELSE Empty,
                info.account_id, Payload("error", 0, None, <<>>), 0, 0, i)
    ELSE ErrorOp(id, acct[c], 0)

\* a variant of the endpoint that leaves its loop on a malformed text
BreakOnMalformed(kind) == "closed"

\* where the endpoint stands after a malformed text: "continue", and the
\* return of handle_client_op, lead back to receive_text
AfterMalformed(kind) == "idle"

\* a text that does not decode into an operation is received
ReceiveMalformed(c, kind, fail) ==
    /\ CanReceive(c)
    /\ MayFail(fail)
    /\ kind \in MalformedKinds
    /\ SendToConn(home[c], c, MalformedReply(Uuid(c, 1), home[c], c, kind), fail)
    /\ pc' = [pc EXCEPT ![c] = AfterMalformed(kind)]
    /\ seq' = [seq EXCEPT ![c] = @ + 1]
    /\ nOps' = nOps + 1
    /\ carried' = [carried EXCEPT ![c] = None]
    /\ UNCHANGED <<dataVars, home, acct, cur, local, bcast, busVars, accepted, dropped, published, service,
                   wire, fetched, esm>>

\* ------------------------------------------------------------ broadcasting
\* a variant of PUBLISH that reaches the publishing instance only
PublishOwn(b, sid, op) ==
    [j \in Instances |-> IF sid \in subs[j] /\ j = op.instance_id THEN Append(b[j], op) ELSE b[j]]

\* redis PUBLISH: the message is queued for every instance subscribed to the
\* session's channel
Publish(b, sid, op) == [j \in Instances |-> IF sid \in subs[j] THEN Append(b[j], op) ELSE b[j]]

\* a variant of the snapshot that takes every connection of the instance
AllConnIds(i, sid) == DOMAIN connections[i]

\* list(self.session_connections.get(session_id, ()))
LocalConnIds(i, sid) == DictGet(session_connections[i], sid, {})

\* a variant of the loop that does not skip exclude_connection
NoExclusion(conn_ids, exclude) == conn_ids

\* the connections broadcast_to_session creates a send for
FanoutTargets(conn_ids, exclude) == conn_ids \ {exclude}

\* the send_to_connection coroutines of one gather; bound records whether the
\* target was bound to the session when the ids were read
SendTasks(owner, i, sid, targets, op) ==
    { [owner |-> owner, inst |-> i, target |-> t, op |-> op,
       bound |-> (t \in DOMAIN connections[i] /\ connections[i][t].session_id = sid)]
      : t \in targets }

\* the awaits of a task up to the gather of broadcast_to_session: the
\* registry update of join_session / leave_session when the call follows
\* one, the publish, the snapshot of the local connection ids
Broadcast(c) ==
    /\ pc[c] = "bcast"
    /\ LET b == bcast[c]
           i == home[c]
           targets == FanoutTargets(LocalConnIds(i, b.session_id), b.exclude)
       IN /\ mirror' = IF b.entry # NoEntry THEN DictSet(mirror, c, b.entry) ELSE mirror
          /\ bus' = Publish(bus, b.session_id, b.op)
          /\ published' = published \cup
                 {[op |-> b.op.id, channel |-> b.session_id,
                   subscribers |-> {j \in Instances : b.session_id \in subs[j]}]}
          /\ sends' = sends \cup SendTasks(c, i, b.session_id, targets, b.op)
          /\ pc' = [pc EXCEPT ![c] = IF targets = {} THEN ResumePc(c, b.after) ELSE "gather"]
          /\ bcast' = [bcast EXCEPT ![c] = IF targets = {} THEN ResumeBcast(c, b.after)
                                          ELSE [b EXCEPT !.targets = targets]]
    /\ UNCHANGED <<connections, session_connections, account_connections, stats, subs, dataVars,
                   sockVars, home, acct, cur, local, seq, nOps, accepted, dropped, carried, service, wire, fetched, esm>>

\* a variant of the gather that a failed send aborts: the coroutines of the
\* same gather that have not run are dropped
AbortOnFailure(tasks, t, fail) ==
    IF fail THEN {u \in tasks : u.owner # t.owner} ELSE tasks \ {t}

\* the coroutines of the pending gathers once coroutine t has run:
\* send_to_connection catches what send_text raises and gather collects with
\* return_exceptions=True, so the other coroutines stay scheduled
AfterSend(tasks, t, fail) == tasks \ {t}

\* one send_to_connection coroutine of a gather runs
Send(t, fail) ==
    /\ t \in sends
    /\ MayFail(fail)
    /\ SendToConn(t.inst, t.target, t.op, fail)
    /\ sends' = AfterSend(sends, t, fail)
    /\ UNCHANGED <<dataVars, taskVars, bus, seq, nOps, histVars, service, wire, fetched, esm>>

\* the gather of a broadcast returns when all its sends have run
GatherDone(c) ==
    /\ pc[c] = "gather"
    /\ \A t \in sends : t.owner # c
    /\ pc' = [pc EXCEPT ![c] = ResumePc(c, bcast[c].after)]
    /\ bcast' = [bcast EXCEPT ![c] = ResumeBcast(c, bcast[c].after)]
    /\ UNCHANGED <<regVars, dataVars, sockVars, home, acct, cur, local, busVars,
                   seq, nOps, histVars, service, wire, fetched, esm>>

\* a variant of the listener that drops nothing
AcceptsAll(i, op) == TRUE

\* _handle_pubsub_op: an operation this instance published itself is dropped
ListenerAccepts(i, op) == op.instance_id # i

\* a text on a session channel that from_json cannot turn into an operation
Unparsable == "unparsable"

BadMessage == [NoOp EXCEPT !.type = Unparsable]

\* _handle_pubsub_op: "op = ExerciseSessionOperation.from_json(raw)" returns
Parses(msg) == msg.type # Unparsable

\* the texts queued for instance i that are no operation
BadQueued(i) == Cardinality({n \in DOMAIN bus[i] : ~Parses(bus[i][n])})

\* a publisher that is no instance publishes, on the channel of session sid,
\* a text that is no operation
PublishBad(sid) ==
    /\ \E i \in Instances : sid \in subs[i]
    /\ \A i \in Instances : dropped[i].count + BadQueued(i) < MaxBad
    /\ bus' = Publish(bus, sid, BadMessage)
    /\ UNCHANGED <<regVars, dataVars, sockVars, taskVars, sends, seq, nOps, histVars, service, wire,
                   fetched, esm>>

\* a variant of the listener whose task ends on a message it cannot parse
EndsOnBadMessage(task) == "ended"

\* _handle_pubsub_op: "except Exception as e: logger.error(...)"; the
\* exception does not reach the loop of _pubsub_listener, which polls again
AfterBadMessage(task) == task

\* a variant of the listener that takes the next message while the gather
\* of the last one is pending
ListenerOverlaps(i) == TRUE

\* _pubsub_listener: "await self._handle_pubsub_op(msg)" has returned, no
\* send of the last message's gather is pending
ListenerIdle(i) == \A t \in sends : t.owner # i

\* _pubsub_listener: get_message returns a queued message and
\* _handle_pubsub_op fans it out to the local connections of its session; the
\* listener takes the next message when the gather of the last one returned
ListenerReceive(i) ==
    /\ service[i].pubsub_task = "running"
    /\ service[i].pubsub
    /\ bus[i] # <<>>
    /\ ListenerIdle(i)
    /\ LET op == Head(bus[i])
           targets == IF Parses(op) /\ ListenerAccepts(i, op)
                      THEN LocalConnIds(i, op.session_id) ELSE {}
       IN /\ bus' = [bus EXCEPT ![i] = Tail(@)]
          /\ sends' = sends \cup SendTasks(i, i, op.session_id, targets, op)
          /\ service' = IF Parses(op) THEN service
                        ELSE [service EXCEPT ![i].pubsub_task = AfterBadMessage(@)]
          /\ dropped' = IF Parses(op) THEN dropped
                        ELSE [dropped EXCEPT ![i] = [count |-> @.count + 1,
                                                    before |-> {p.op : p \in published}]]
    /\ UNCHANGED <<regVars, dataVars, sockVars, taskVars, seq, nOps, accepted, published, carried, wire,
                   fetched, esm>>

\* ------------------------------------------------------------------ stop
\* stop(): "conn_ids = list(self.connections.keys())"
Snapshot(i) == DOMAIN connections[i]

\* stop() begins: running is cleared and the lock is asked for
StopBegin(i) ==
    /\ service[i].stop = "none"
    /\ service[i].running
    /\ service' = [service EXCEPT ![i].running = FALSE, ![i].stop = "lock"]
    /\ UNCHANGED <<regVars, dataVars, sockVars, taskVars, busVars, seq, nOps, histVars, wire, fetched, esm>>

\* stop() holds the lock and takes its snapshot of the connection ids; the
\* lock is granted in the order it was asked for, so the connect() calls that
\* asked before stop() have registered
StopSnapshot(i) ==
    /\ service[i].stop = "lock"
    /\ \A c \in ConnIds : ~(pc[c] = "connecting" /\ home[c] = i)
    /\ service' = [service EXCEPT ![i].todo = Snapshot(i), ![i].stop = "loop"]
    /\ UNCHANGED <<regVars, dataVars, sockVars, taskVars, busVars, seq, nOps, histVars, wire, fetched, esm>>

\* stop(): "for cid in conn_ids: await self.disconnect(cid)", one iteration
StopDisconnect(i) ==
    /\ service[i].stop = "loop"
    /\ service[i].todo # {}
    /\ LET c == CHOOSE d \in service[i].todo :
                    \A e \in service[i].todo : ConnRank(d) <= ConnRank(e)
       IN /\ DisconnectConn(i, c, "closed")
          /\ service' = [service EXCEPT ![i].todo = @ \ {c}]
    /\ UNCHANGED <<dataVars, inbox, taskVars, busVars, seq, nOps, histVars, wire, fetched, esm>>

\* stop() after the loop: pubsub.unsubscribe() of every channel,
\* pubsub.close(), self.pubsub = None
StopPubsub(i) ==
    /\ service[i].stop = "loop"
    /\ service[i].todo = {}
    /\ subs' = [subs EXCEPT ![i] = {}]
    /\ service' = [service EXCEPT ![i].pubsub = FALSE, ![i].stop = "cancel"]
    /\ UNCHANGED <<connections, session_connections, account_connections, stats, mirror, dataVars,
                   sockVars, taskVars, busVars, seq, nOps, histVars, wire, fetched, esm>>

\* stop(): self.pubsub_task.cancel(), then "await self.pubsub_task"
StopCancel(i) ==
    /\ service[i].stop = "cancel"
    /\ service' = [service EXCEPT ![i].stop = "await"]
    /\ UNCHANGED <<regVars, dataVars, sockVars, taskVars, busVars, seq, nOps, histVars, wire, fetched, esm>>

\* _pubsub_listener ends: its loop condition fails once running is cleared,
\* and a cancellation breaks the loop ("except asyncio.CancelledError: break")
\* at the await it is suspended in; the coroutines of a gather it awaits are
\* cancelled with it
ListenerEnd(i) ==
    /\ service[i].pubsub_task = "running"
    /\ \/ service[i].stop = "await"
       \/ ~service[i].running /\ \A t \in sends : t.owner # i
    /\ service' = [service EXCEPT ![i].pubsub_task = "ended"]
    /\ sends' = {t \in sends : t.owner # i}
    /\ UNCHANGED <<regVars, dataVars, sockVars, taskVars, bus, seq, nOps, histVars, wire, fetched, esm>>

\* stop() returns when the listener task it awaits has ended
StopReturn(i) ==
    /\ service[i].stop = "await"
    /\ service[i].pubsub_task = "ended"
    /\ service' = [service EXCEPT ![i].stop = "done"]
    /\ UNCHANGED <<regVars, dataVars, sockVars, taskVars, busVars, seq, nOps, histVars, wire, fetched, esm>>

\* the steps of stop() and of the listener it ends
StopSteps ==
    \/ \E i \in Instances : StopBegin(i)
    \/ \E i \in Instances : StopSnapshot(i)
    \/ \E i \in Instances : StopDisconnect(i)
    \/ \E i \in Instances : StopPubsub(i)
    \/ \E i \in Instances : StopCancel(i)
    \/ \E i \in Instances : ListenerEnd(i)
    \/ \E i \in Instances : StopReturn(i)

\* ----------------------------------------------------------- serialization
\* Python values are written as tagged tuples: <<"NoneType">>, <<"bool", b>>,
\* <<"int", n>>, <<"str", s>>, <<"list", values>> and <<"dict", items>>, the
\* items being <<key, value>> pairs in insertion order.  A JSON text is
\* written as the document it spells: <<"null">>, <<"true">>, <<"false">>,
\* <<"number", n>>, <<"string", s>>, <<"array", values>> and
\* <<"object", members>>.
PyNone == <<"NoneType">>
PyStr(s) == <<"str", s>>
PyInt(n) == <<"int", n>>
PyDict(items) == <<"dict", items>>

\* json.dumps
RECURSIVE Dumps(_)
Dumps(v) ==
    CASE v[1] = "NoneType" -> <<"null">>
      [] v[1] = "bool" -> IF v[2] THEN <<"true">> ELSE <<"false">>
      [] v[1] = "int" -> <<"number", v[2]>>
      [] v[1] = "str" -> <<"string", v[2]>>
      [] v[1] = "list" -> <<"array", [n \in DOMAIN v[2] |-> Dumps(v[2][n])]>>
      [] v[1] = "dict" ->
             <<"object", [n \in DOMAIN v[2] |-> <<v[2][n][1], Dumps(v[2][n][2])>>]>>

\* json.loads
RECURSIVE Loads(_)
Loads(t) ==
    CASE t[1] = "null" -> PyNone
      [] t[1] = "true" -> <<"bool", TRUE>>
      [] t[1] = "false" -> <<"bool", FALSE>>
      [] t[1] = "number" -> PyInt(t[2])
      [] t[1] = "string" -> PyStr(t[2])
      [] t[1] = "array" -> <<"list", [n \in DOMAIN t[2] |-> Loads(t[2][n])]>>
      [] t[1] = "object" ->
             PyDict([n \in DOMAIN t[2] |-> <<t[2][n][1], Loads(t[2][n][2])>>])

\* a member of ExerciseSessionOperationType, and its .value
TypeMember(value) == <<"ExerciseSessionOperationType", value>>
TypeValue(member) == PyStr(member[2])

\* ExerciseSessionOperationType(obj["type"])
TypeOf(v) == TypeMember(v[2])

\* datetime.isoformat and datetime.fromisoformat, for the aware datetimes of
\* datetime.now(timezone.utc)
IsoFormat(ts) == PyStr(<<ts.us, "+00:00">>)
FromIsoFormat(v) == [us |-> v[2][1], utc |-> v[2][2] = "+00:00"]

\* a variant of to_dict that leaves out the fields that have a default
CoreDict(op) ==
    PyDict(<< <<"id", op.id>>, <<"type", TypeValue(op.type)>>,
              <<"session_id", op.session_id>>, <<"account_id", op.account_id>>,
              <<"payload", op.payload>>, <<"timestamp", IsoFormat(op.timestamp)>> >>)

\* ExerciseSessionOperation.to_dict: asdict, then type.value and the
\* timestamp in ISO format
ToDict(op) ==
    PyDict(<< <<"id", op.id>>, <<"type", TypeValue(op.type)>>,
              <<"session_id", op.session_id>>, <<"account_id", op.account_id>>,
              <<"payload", op.payload>>, <<"timestamp", IsoFormat(op.timestamp)>>,
              <<"version", op.version>>, <<"correlation_id", op.correlation_id>>,
              <<"instance_id", op.instance_id>> >>)

\* ExerciseSessionOperation.to_json
ToJson(op) == Dumps(ToDict(op))

\* obj[key] of a dict, or the default of the dataclass field when cls(**obj)
\* is not given the key
ObjGet(obj, key, default) ==
    IF \E n \in DOMAIN obj[2] : obj[2][n][1] = key
    THEN obj[2][CHOOSE n \in DOMAIN obj[2] : obj[2][n][1] = key][2]
    ELSE default

\* ExerciseSessionOperation.from_json
FromJson(text) ==
    LET obj == Loads(text)
        ts == ObjGet(obj, "timestamp", PyNone)
    IN [id |-> ObjGet(obj, "id", PyNone),
        type |-> TypeOf(ObjGet(obj, "type", PyNone)),
        session_id |-> ObjGet(obj, "session_id", PyNone),
        account_id |-> ObjGet(obj, "account_id", PyNone),
        payload |-> ObjGet(obj, "payload", PyNone),
        timestamp |-> IF ts[1] = "str" THEN FromIsoFormat(ts) ELSE ts,
        version |-> ObjGet(obj, "version", PyInt(0)),
        correlation_id |-> ObjGet(obj, "correlation_id", PyNone),
        instance_id |-> ObjGet(obj, "instance_id", PyNone)]

\* broadcast_to_session: "await self.redis.publish(channel, op.to_json())"
Serialize ==
    /\ wire.stage = "op"
    /\ wire' = [wire EXCEPT !.stage = "text", !.text = ToJson(wire.op)]
    /\ UNCHANGED <<regVars, dataVars, sockVars, taskVars, busVars, seq, nOps, histVars, service, fetched, esm>>

\* _handle_pubsub_op: "op = ExerciseSessionOperation.from_json(raw)"
Parse ==
    /\ wire.stage = "text"
    /\ wire' = [wire EXCEPT !.stage = "parsed", !.parsed = FromJson(wire.text)]
    /\ UNCHANGED <<regVars, dataVars, sockVars, taskVars, busVars, seq, nOps, histVars, service, fetched, esm>>

\* --------------------------------------------------------------- cursors
\* cursor_move: handle_cursor_move up to get_session_by_id; without a
\* session id the handler returns and nothing is broadcast
ReceiveCursor(c, msid, cursor) ==
    /\ CanReceive(c)
    /\ cursor \in CursorValues \cup {BadCursor}
    /\ LET op == ClientOp(OpId(c), home[c], c, CURSOR_MOVE, msid, Payload("cursor", cursor, None, <<>>))
       IN /\ cur' = [cur EXCEPT ![c] = op]
          /\ pc' = [pc EXCEPT ![c] = IF op.session_id = Empty THEN "idle" ELSE "cur_read"]
    /\ seq' = [seq EXCEPT ![c] = @ + 1]
    /\ nOps' = nOps + 1
    /\ carried' = [carried EXCEPT ![c] = None]
    /\ UNCHANGED <<regVars, dataVars, sockVars, home, acct, local, bcast, busVars, accepted, dropped, published,
                   service, wire, fetched, esm>>

\* the participants of the fetched document once the loop has replaced the
\* cursor of the participant whose id is the operation's account
MovedCursor(cursors, a, cursor) == [cursors EXCEPT ![a] = cursor]

\* get_session_by_id returned: the loop finds the participant and sets its
\* cursor on the fetched document; a session that is not found, an account
\* that is no participant, or a cursor the model class refuses (the
\* exception is logged by _route_op) leave the document alone
CursorRead(c) ==
    /\ pc[c] = "cur_read"
    /\ LET op == cur[c]
           found == op.session_id \in DOMAIN sessions
                       /\ op.account_id \in DOMAIN sessions[op.session_id].cursors
       IN IF found /\ op.payload.item # BadCursor
          THEN /\ fetched' = [fetched EXCEPT ![c] =
                       MovedCursor(sessions[op.session_id].cursors, op.account_id, op.payload.item)]
               /\ pc' = [pc EXCEPT ![c] = "cur_write"]
               /\ UNCHANGED bcast
          ELSE /\ pc' = [pc EXCEPT ![c] = RoutePc(op)]
               /\ bcast' = [bcast EXCEPT ![c] = RouteBcast(c, op)]
               /\ UNCHANGED fetched
    /\ UNCHANGED <<regVars, dataVars, sockVars, home, acct, cur, local, busVars, seq, nOps, histVars,
                   service, wire, esm>>

\* mongo.update_by_id: "$set" writes the whole participants list of the
\* fetched document; _route_op follows
CursorWrite(c) ==
    /\ pc[c] = "cur_write"
    /\ sessions' = [sessions EXCEPT ![cur[c].session_id].cursors = fetched[c]]
    /\ fetched' = [fetched EXCEPT ![c] = NoRoster]
    /\ pc' = [pc EXCEPT ![c] = RoutePc(cur[c])]
    /\ bcast' = [bcast EXCEPT ![c] = RouteBcast(c, cur[c])]
    /\ UNCHANGED <<regVars, store, sockVars, home, acct, cur, local, busVars, seq, nOps, histVars,
                   service, wire, esm>>

\* ------------------------------------------------- the newer engine
otherVars == <<regVars, dataVars, sockVars, taskVars, busVars, seq, nOps, histVars, service, wire,
               fetched>>

\* ESMService.start: returns when running is set; else takes a pubsub,
\* subscribes it to the global channel and creates the listener task
EsmStart ==
    /\ esm.starts < MaxStarts
    /\ esm' = IF esm.running THEN [esm EXCEPT !.starts = @ + 1]
              ELSE [esm EXCEPT !.pubsub = TRUE, !.pubsub_task = "running", !.starts = @ + 1]
    /\ UNCHANGED otherVars

\* ESMService._listen: the task polls the pubsub while running is set and
\* there is a pubsub, and returns when the loop condition fails
EsmListen ==
    /\ esm.pubsub_task = "running"
    /\ esm' = IF esm.running /\ esm.pubsub THEN esm ELSE [esm EXCEPT !.pubsub_task = "ended"]
    /\ UNCHANGED otherVars

\* ESMService.open_connection: raises RuntimeError("start() must be called
\* before open_connection()") unless running is set and there is a pubsub,
\* else registers the connection of the account; refused keeps the account
\* of a call that raised
EsmOpen(c, a) ==
    /\ c \notin DOMAIN esm.connections
    /\ esm.refused[c] = None
    /\ esm' = IF ~esm.running \/ ~esm.pubsub
              THEN [esm EXCEPT !.refused[c] = a]
              ELSE [esm EXCEPT !.connections = DictSet(@, c, a)]
    /\ UNCHANGED otherVars

\* the first key of a dict of connections: the one registered first
OldestConn(ids) == CHOOSE c \in ids : \A d \in ids : ConnRank(c) <= ConnRank(d)

\* ESMService.stop: returns when running is not set; else closes the
\* connections, closes the pubsub and cancels the listener task.  The loop
\* iterates the connections dict itself, which close_connection pops from:
\* with a connection registered, the loop raises RuntimeError after the
\* first close_connection and the rest of stop() does not run
EsmStop ==
    /\ esm.starts > 0
    /\ ~esm.stopped
    /\ esm' = IF ~esm.running THEN [esm EXCEPT !.stopped = TRUE]
              ELSE IF DOMAIN esm.connections = {}
              THEN [esm EXCEPT !.pubsub = FALSE, !.pubsub_task = None, !.stopped = TRUE]
              ELSE [esm EXCEPT !.connections = DictPop(@, OldestConn(DOMAIN @)), !.stopped = TRUE]
    /\ UNCHANGED otherVars

\* ------------------------------------------------------------ specification
\* the steps every task takes once an operation is being broadcast
Deliver ==
    \/ \E c \in ConnIds : Broadcast(c)
    \/ \E c \in ConnIds : GatherDone(c)
    \/ \E t \in sends, fail \in BOOLEAN : Send(t, fail)
    \/ \E i \in Instances : ListenerReceive(i)

\* the steps of handle_session_join after the message was received
JoinSteps ==
    \/ \E c \in ConnIds : JoinLeave(c)
    \/ \E c \in ConnIds : JoinBind(c)
    \/ \E c \in ConnIds, fail \in BOOLEAN : JoinState(c, fail)
    \/ \E c \in ConnIds, fail \in BOOLEAN : JoinCreate(c, fail)

\* the steps of a mutation handler after the message was received
MutSteps ==
    \/ \E c \in ConnIds, fail \in BOOLEAN : MutRead(c, fail)
    \/ \E c \in ConnIds : MutWrite(c)

\* the steps of the handlers that name a target, and the save that fails
TargetSteps ==
    \/ \E c \in ConnIds, fail \in BOOLEAN : TargetRead(c, fail)
    \/ \E c \in ConnIds : MutWriteLost(c)

\* websocket_endpoint on a socket a failed send has ended: receive_text
\* raises, the loop ends and the finally clause calls disconnect for a
\* connection that disconnect has already removed
EndpointFinally(c) ==
    /\ pc[c] = "idle"
    /\ sock[c] = "failed"
    /\ DisconnectConn(home[c], c, "failed")
    /\ pc' = [pc EXCEPT ![c] = "closed"]
    /\ UNCHANGED <<dataVars, inbox, home, acct, cur, local, bcast, busVars, seq, nOps, histVars, service,
                   wire, fetched, esm>>

\* clients close their sockets
Closes == \E c \in ConnIds : EndpointClose(c)

\* the whole engine: any socket on any instance, every kind of message
Next ==
    \/ \E c \in ConnIds, i \in Instances, a \in Accounts : Connect(c, i, a)
    \/ \E c \in ConnIds, m \in MsgSessionIds : ReceiveOther(c, m)
    \/ \E c \in ConnIds, m \in MsgSessionIds, s \in SessionIds, fail \in BOOLEAN :
           ReceiveJoin(c, m, s, fail)
    \/ \E c \in ConnIds, m \in MsgSessionIds : ReceiveLeave(c, m)
    \/ \E c \in ConnIds, m \in MsgSessionIds, ty \in MutationTypes, it \in DeleteTargets,
          fail \in BOOLEAN : ReceiveMutation(c, ty, m, it, fail)
    \/ \E c \in ConnIds, m \in FieldSessionIds, a \in FieldAccounts, ty \in TargetTypes,
          it \in DeleteTargets, st \in SetTargets, fail \in BOOLEAN :
           ReceiveTargeted(c, ty, m, a, it, st, fail)
    \/ \E c \in ConnIds, m \in FieldSessionIds, a \in FieldAccounts, fail \in BOOLEAN :
           ReceiveBadAdd(c, m, a, fail)
    \/ \E c \in ConnIds, m \in FieldSessionIds, a \in FieldAccounts, fail \in BOOLEAN :
           ReceiveSync(c, m, a, fail)
    \/ \E c \in ConnIds, k \in MalformedKinds, fail \in BOOLEAN : ReceiveMalformed(c, k, fail)
    \/ \E c \in ConnIds, m \in FieldSessionIds, it \in DeleteTargets, v \in OrderValues :
           ReceiveReorder(c, m, it, v)
    \/ \E c \in ConnIds, m \in FieldSessionIds, it \in DeleteTargets, st \in SetTargets :
           ReceiveSetDelete(c, m, it, st)
    \/ JoinSteps
    \/ MutSteps
    \/ TargetSteps
    \/ Deliver
    \/ Closes
    \/ \E c \in ConnIds : EndpointFinally(c)
    \/ \E c \in ConnIds, i \in Instances, a \in Accounts : ConnectEnter(c, i, a)
    \/ \E c \in ConnIds : ConnectLocked(c)
    \/ \E c \in ConnIds, i \in Instances, a \in Accounts : ConnectRefused(c, i, a)
    \/ StopSteps
    \/ Serialize
    \/ Parse
    \/ \E c \in ConnIds, m \in FieldSessionIds, it \in DeleteTargets, v \in ClientVersions :
           ReceiveVersioned(c, m, it, v)
    \/ \E c \in ConnIds, m \in FieldSessionIds, v \in CursorValues \cup {BadCursor} :
           ReceiveCursor(c, m, v)
    \/ \E c \in ConnIds : CursorRead(c)
    \/ \E c \in ConnIds : CursorWrite(c)
    \/ \E s \in SessionIds : PublishBad(s)
    \/ EsmStart
    \/ EsmListen
    \/ \E c \in ConnIds, a \in Accounts : EsmOpen(c, a)
    \/ EsmStop

Spec == Init /\ [][Next]_vars

\* ---------------------------------------------------------------- scenarios
\* The synchronisation scenario: a socket of a1 on instance i1 and a socket
\* of a2 on either instance; the clients join and leave sessions and send
\* heartbeats, sends fail and clients close.  The operations it broadcasts
\* are the relays of join_session and leave_session and the session_join /
\* session_leave operations themselves.
SyncPlace(c, i, a) ==
    \/ c = "c1" /\ i = "i1" /\ a = "a1"
    \/ c = "c2" /\ a = "a2"

\* the messages of the clients in senders, while the scenario lets them send
SyncHeartbeat(senders) ==
    \E c \in senders, m \in MsgSessionIds : nOps < MaxSyncOps /\ ReceiveOther(c, m)

SyncJoin(senders) ==
    \E c \in senders, m \in MsgSessionIds, s \in SessionIds, fail \in BOOLEAN :
        nOps < MaxSyncOps /\ ReceiveJoin(c, m, s, fail)

SyncLeave(senders) ==
    \E c \in senders, m \in MsgSessionIds : nOps < MaxSyncOps /\ ReceiveLeave(c, m)

NextSync ==
    \/ \E c \in ConnIds, i \in Instances, a \in Accounts : SyncPlace(c, i, a) /\ Connect(c, i, a)
    \/ SyncHeartbeat(ConnIds)
    \/ SyncJoin(ConnIds)
    \/ SyncLeave(ConnIds)
    \/ JoinSteps
    \/ Deliver
    \/ Closes
    \/ \E c \in ConnIds : EndpointFinally(c)

SpecSync == Init /\ [][NextSync]_vars

\* The two-instance scenario: the socket of a1 on i1, the socket of a2 on i2.
\* The event loop runs every coroutine that is ready and the listener polls
\* its pubsub for ever, so a queued message is eventually taken and a
\* scheduled send eventually runs.
LivePlace(c, i, a) ==
    \/ c = "c1" /\ i = "i1" /\ a = "a1"
    \/ c = "c2" /\ i = "i2" /\ a = "a2"

NextLive ==
    \/ \E c \in ConnIds, i \in Instances, a \in Accounts : LivePlace(c, i, a) /\ Connect(c, i, a)
    \/ SyncHeartbeat(ConnIds)
    \/ SyncJoin(ConnIds)
    \/ SyncLeave(ConnIds)
    \/ JoinSteps
    \/ \E c \in ConnIds : Broadcast(c)
    \/ \E t \in sends, fail \in BOOLEAN : Send(t, fail)
    \/ \E i \in Instances : ListenerReceive(i)
    \/ Closes

SpecLive ==
    /\ Init
    /\ [][NextLive]_vars
    /\ WF_vars(\E i \in Instances : ListenerReceive(i))
    /\ WF_vars(\E t \in sends, fail \in BOOLEAN : Send(t, fail))

\* The fan-out scenario: three sockets on instance i1; the client of c2
\* sends, the other two only listen.
FanPlace(c, i, a) ==
    \/ c = "c1" /\ i = "i1" /\ a = "a1"
    \/ c = "c2" /\ i = "i1" /\ a = "a2"
    \/ c = "c3" /\ i = "i1" /\ a = "a1"

FanSenders == {"c2"}

NextFan ==
    \/ \E c \in ConnIds, i \in Instances, a \in Accounts : FanPlace(c, i, a) /\ Connect(c, i, a)
    \/ SyncHeartbeat(FanSenders)
    \/ SyncJoin(FanSenders)
    \/ SyncLeave(FanSenders)
    \/ JoinSteps
    \/ Deliver
    \/ Closes

SpecFan == Init /\ [][NextFan]_vars

\* The store scenario: two sockets of account a1, on one instance or on two,
\* whose clients join and change the state of a1 in its active session; no
\* socket fails.
StorePlace(c, i, a) ==
    \/ c = "c1" /\ i = "i1" /\ a = "a1"
    \/ c = "c2" /\ a = "a1"

NextStore ==
    \/ \E c \in ConnIds, i \in Instances, a \in Accounts : StorePlace(c, i, a) /\ Connect(c, i, a)
    \/ \E c \in ConnIds, m \in MsgSessionIds, s \in SessionIds : ReceiveJoin(c, m, s, FALSE)
    \/ \E c \in ConnIds, m \in MsgSessionIds, ty \in MutationTypes, it \in DeleteTargets :
           ReceiveMutation(c, ty, m, it, FALSE)
    \/ \E c \in ConnIds : JoinBind(c)
    \/ \E c \in ConnIds : JoinState(c, FALSE)
    \/ \E c \in ConnIds : JoinCreate(c, FALSE)
    \/ \E c \in ConnIds : MutRead(c, FALSE)
    \/ \E c \in ConnIds : MutWrite(c)
    \/ \E c \in ConnIds : Broadcast(c)
    \/ \E c \in ConnIds : GatherDone(c)
    \/ \E t \in sends : Send(t, FALSE)
    \/ \E i \in Instances : ListenerReceive(i)

SpecStore == Init /\ [][NextStore]_vars

\* The message-fields scenario: the sockets of a1 and a2 on instance i1; the
\* clients write any session id, or none, into the "session_id" field of the
\* messages they send.
FieldsPlace(c, i, a) ==
    \/ c = "c1" /\ i = "i1" /\ a = "a1"
    \/ c = "c2" /\ i = "i1" /\ a = "a2"

FieldsHeartbeat ==
    \E c \in ConnIds, m \in FieldSessionIds : nOps < MaxSyncOps /\ ReceiveOther(c, m)

FieldsLeave ==
    \E c \in ConnIds, m \in FieldSessionIds : nOps < MaxSyncOps /\ ReceiveLeave(c, m)

NextFields ==
    \/ \E c \in ConnIds, i \in Instances, a \in Accounts :
           FieldsPlace(c, i, a) /\ Connect(c, i, a)
    \/ FieldsHeartbeat
    \/ FieldsLeave
    \/ Deliver
    \/ Closes

SpecFields == Init /\ [][NextFields]_vars

\* The editing scenario: the sockets of a1 and a2 on instance i1, both bound
\* to s1 when they connect; the client of c1 joins, edits its state, asks
\* for a sync and sends malformed texts, the client of c2 only listens.  The
\* messages of c1 carry any account id, or none; a save can fail.
EditPlace(c, i, a) ==
    \/ c = "c1" /\ i = "i1" /\ a = "a1"
    \/ c = "c2" /\ i = "i1" /\ a = "a2"

EditSenders == {"c1"}

NextEdit ==
    \/ \E c \in ConnIds, i \in Instances, a \in Accounts : EditPlace(c, i, a) /\ Connect(c, i, a)
    \/ \E c \in EditSenders, m \in MsgSessionIds, s \in SessionIds : ReceiveJoin(c, m, s, FALSE)
    \/ \E c \in EditSenders, m \in MsgSessionIds, ty \in MutationTypes, it \in DeleteTargets :
           ReceiveMutation(c, ty, m, it, FALSE)
    \/ \E c \in EditSenders, m \in MsgSessionIds, a \in FieldAccounts, ty \in TargetTypes,
          it \in DeleteTargets, st \in SetTargets : ReceiveTargeted(c, ty, m, a, it, st, FALSE)
    \/ \E c \in EditSenders, m \in MsgSessionIds, a \in FieldAccounts :
           ReceiveBadAdd(c, m, a, FALSE)
    \/ \E c \in EditSenders, m \in FieldSessionIds, a \in FieldAccounts :
           ReceiveSync(c, m, a, FALSE)
    \/ \E c \in EditSenders, m \in FieldSessionIds : ReceiveOther(c, m)
    \/ \E c \in EditSenders, k \in MalformedKinds, fail \in BOOLEAN :
           ReceiveMalformed(c, k, fail)
    \/ \E c \in ConnIds : JoinBind(c)
    \/ \E c \in ConnIds : JoinState(c, FALSE)
    \/ \E c \in ConnIds : JoinCreate(c, FALSE)
    \/ \E c \in ConnIds : MutRead(c, FALSE)
    \/ \E c \in ConnIds : MutWrite(c)
    \/ \E c \in ConnIds : TargetRead(c, FALSE)
    \/ \E c \in ConnIds : MutWriteLost(c)
    \/ \E c \in ConnIds : Broadcast(c)
    \/ \E c \in ConnIds : GatherDone(c)
    \/ \E t \in sends : Send(t, FALSE)
    \/ \E i \in Instances : ListenerReceive(i)

SpecEdit == Init /\ [][NextEdit]_vars

\* The shutdown scenario: the sockets of a1 and a2 on instance i1; the
\* client of a2 joins and leaves sessions while stop() runs, and a connect()
\* may be waiting for the lock when stop() begins.
StopPlace(c, i, a) ==
    \/ c = "c1" /\ i = "i1" /\ a = "a2"
    \/ c = "c2" /\ i = "i1" /\ a = "a1"

StopSenders == {"c1"}

NextStop ==
    \/ \E c \in ConnIds, i \in Instances, a \in Accounts : StopPlace(c, i, a) /\ Connect(c, i, a)
    \/ \E c \in ConnIds, i \in Instances, a \in Accounts :
           StopPlace(c, i, a) /\ ConnectEnter(c, i, a)
    \/ \E c \in ConnIds : ConnectLocked(c)
    \/ \E c \in ConnIds, i \in Instances, a \in Accounts :
           StopPlace(c, i, a) /\ ConnectRefused(c, i, a)
    \/ SyncJoin(StopSenders)
    \/ SyncLeave(StopSenders)
    \/ JoinSteps
    \/ Deliver
    \/ StopBegin("i1")
    \/ StopSnapshot("i1")
    \/ StopDisconnect("i1")
    \/ StopPubsub("i1")
    \/ StopCancel("i1")
    \/ ListenerEnd("i1")
    \/ StopReturn("i1")

SpecStop == Init /\ [][NextStop]_vars

\* The serialization scenario: one operation of those the engine publishes
\* (built by handle_client_op from a client's JSON message, whose "id",
\* "version", "correlation_id" and "payload" are the client's, or a relay of
\* join_session and leave_session) is serialized and parsed back.
CodecPayloads ==
    {PyDict(<<>>),
     PyDict(<< <<"account_id", PyStr("a1")>> >>),
     PyDict(<< <<"exercise", PyDict(<< <<"id", PyStr("e1")>>, <<"rest", PyNone>>,
                                       <<"sets", <<"list", <<>> >> >> >>)>> >>),
     PyDict(<< <<"updates", PyDict(<< <<"order", PyInt(7)>>,
                                      <<"participants", <<"list", <<PyStr("a1"), PyStr("a2")>> >> >>,
                                      <<"complete", <<"bool", TRUE>> >> >>)>> >>)}

CodecTypes == {TypeMember(v) : v \in {SESSION_JOIN, EXERCISE_ADD, PARTICIPANT_LEAVE}}

CodecOps ==
    [id : {PyStr("op1"), PyInt(7)},
     type : CodecTypes,
     session_id : {PyStr("s1"), PyStr("")},
     account_id : {PyStr("a1")},
     payload : CodecPayloads,
     timestamp : {[us |-> 5, utc |-> TRUE]},
     version : {PyInt(0), PyInt(5)},
     correlation_id : {PyNone, PyStr("op0")},
     instance_id : {PyStr("i1")}]

InitCodec ==
    /\ connections = [i \in Instances |-> EmptyDict]
    /\ session_connections = [i \in Instances |-> EmptyDict]
    /\ account_connections = [i \in Instances |-> EmptyDict]
    /\ stats = [i \in Instances |-> 0]
    /\ subs = [i \in Instances |-> {}]
    /\ mirror = EmptyDict
    /\ bus = [i \in Instances |-> <<>>]
    /\ store = [k \in StateKeys |-> NoState]
    /\ sessions = InitialSessions
    /\ sock = [c \in ConnIds |-> "unused"]
    /\ inbox = [c \in ConnIds |-> <<>>]
    /\ pc = [c \in ConnIds |-> "new"]
    /\ home = [c \in ConnIds |-> None]
    /\ acct = [c \in ConnIds |-> None]
    /\ cur = [c \in ConnIds |-> NoOp]
    /\ local = [c \in ConnIds |-> NoState]
    /\ bcast = [c \in ConnIds |-> NoBcast]
    /\ sends = {}
    /\ seq = [c \in ConnIds |-> 0]
    /\ nOps = 0
    /\ accepted = [k \in StateKeys |-> 0]
    /\ published = {}
    /\ carried = [c \in ConnIds |-> None]
    /\ dropped = [i \in Instances |-> NoDrop]
    /\ esm = NewEsm
    /\ service = [i \in Instances |-> Started]
    /\ wire \in {[stage |-> "op", op |-> o, text |-> <<"null">>, parsed |-> o] : o \in CodecOps}
    /\ fetched = [c \in ConnIds |-> NoRoster]

NextCodec ==
    \/ Serialize
    \/ Parse

SpecCodec == InitCodec /\ [][NextCodec]_vars

\* The ordering scenario: the state of a1 in s1 already holds items, written
\* by earlier exercise_add and exercise_update operations, so their order
\* fields hold any of OrderValues; the first item has two sets.  The sockets
\* of a1 and a2 connect on i1; the client of c1 adds, reorders and deletes
\* items and sends set_delete; no send and no save fails.
OrderSets == <<[id |-> 11, order |-> 1, complete |-> FALSE],
               [id |-> 12, order |-> 2, complete |-> FALSE]>>

OrderItems ==
    UNION {{[k \in 1..n |-> [id |-> k, order |-> o[k], rest |-> 90,
                              sets |-> IF k = 1 THEN OrderSets ELSE <<>>]]
              : o \in [1..n -> OrderValues]} : n \in 1..MaxItems}

\* one exercise_add for each item and one exercise_update for each item
\* whose order is not its position
OrderVersion(items) == Len(items) + Cardinality({n \in DOMAIN items : items[n].order # n})

InitOrder ==
    /\ connections = [i \in Instances |-> EmptyDict]
    /\ session_connections = [i \in Instances |-> EmptyDict]
    /\ account_connections = [i \in Instances |-> EmptyDict]
    /\ stats = [i \in Instances |-> 0]
    /\ subs = [i \in Instances |-> {}]
    /\ mirror = EmptyDict
    /\ bus = [i \in Instances |-> <<>>]
    /\ \E items \in OrderItems :
          /\ store = [k \in StateKeys |->
                 IF k = <<"s1", "a1">>
                 THEN [session_id |-> "s1", account_id |-> "a1",
                       version |-> OrderVersion(items), items |-> items]
                 ELSE NoState]
          /\ accepted = [k \in StateKeys |->
                 IF k = <<"s1", "a1">> THEN OrderVersion(items) ELSE 0]
    /\ sessions = InitialSessions
    /\ sock = [c \in ConnIds |-> "unused"]
    /\ inbox = [c \in ConnIds |-> <<>>]
    /\ pc = [c \in ConnIds |-> "new"]
    /\ home = [c \in ConnIds |-> None]
    /\ acct = [c \in ConnIds |-> None]
    /\ cur = [c \in ConnIds |-> NoOp]
    /\ local = [c \in ConnIds |-> NoState]
    /\ bcast = [c \in ConnIds |-> NoBcast]
    /\ sends = {}
    /\ seq = [c \in ConnIds |-> 0]
    /\ nOps = 0
    /\ published = {}
    /\ carried = [c \in ConnIds |-> None]
    /\ dropped = [i \in Instances |-> NoDrop]
    /\ esm = NewEsm
    /\ service = [i \in Instances |-> Started]
    /\ wire = NoWire
    /\ fetched = [c \in ConnIds |-> NoRoster]

NextOrder ==
    \/ \E c \in ConnIds, i \in Instances, a \in Accounts : EditPlace(c, i, a) /\ Connect(c, i, a)
    \/ \E c \in EditSenders, m \in MsgSessionIds, ty \in MutationTypes, it \in DeleteTargets :
           nOps < MaxSyncOps /\ ReceiveMutation(c, ty, m, it, FALSE)
    \/ \E c \in EditSenders, m \in MsgSessionIds, it \in DeleteTargets, v \in OrderValues :
           nOps < MaxSyncOps /\ ReceiveReorder(c, m, it, v)
    \/ \E c \in EditSenders, m \in MsgSessionIds, it \in DeleteTargets, st \in SetTargets :
           nOps < MaxSyncOps /\ ReceiveSetDelete(c, m, it, st)
    \/ \E c \in ConnIds : MutRead(c, FALSE)
    \/ \E c \in ConnIds : MutWrite(c)
    \/ \E c \in ConnIds : TargetRead(c, FALSE)
    \/ \E c \in ConnIds : Broadcast(c)
    \/ \E c \in ConnIds : GatherDone(c)
    \/ \E t \in sends : Send(t, FALSE)
    \/ \E i \in Instances : ListenerReceive(i)

SpecOrder == InitOrder /\ [][NextOrder]_vars

\* The reordering scenario: from an empty store, the client of c1 joins s1,
\* adds and deletes exercises and sends exercise_update messages whose
\* updates name the "order" attribute.
NextReorder ==
    \/ \E c \in ConnIds, i \in Instances, a \in Accounts : EditPlace(c, i, a) /\ Connect(c, i, a)
    \/ \E c \in EditSenders, m \in MsgSessionIds : ReceiveJoin(c, m, "s1", FALSE)
    \/ \E c \in EditSenders, m \in MsgSessionIds, ty \in MutationTypes, it \in DeleteTargets :
           ReceiveMutation(c, ty, m, it, FALSE)
    \/ \E c \in EditSenders, m \in MsgSessionIds, it \in DeleteTargets, v \in OrderValues :
           ReceiveReorder(c, m, it, v)
    \/ \E c \in ConnIds : JoinBind(c)
    \/ \E c \in ConnIds : JoinState(c, FALSE)
    \/ \E c \in ConnIds : JoinCreate(c, FALSE)
    \/ \E c \in ConnIds : MutRead(c, FALSE)
    \/ \E c \in ConnIds : MutWrite(c)
    \/ \E c \in ConnIds : TargetRead(c, FALSE)
    \/ \E c \in ConnIds : Broadcast(c)
    \/ \E c \in ConnIds : GatherDone(c)
    \/ \E t \in sends : Send(t, FALSE)
    \/ \E i \in Instances : ListenerReceive(i)

SpecReorder == Init /\ [][NextReorder]_vars

\* The stale-version scenario: from the stored states of the ordering
\* scenario (versions 1 and more), the client of c1 sends exercise_update
\* messages whose "version" is lower than, or higher than, the stored one.
NextStale ==
    \/ \E c \in ConnIds, i \in Instances, a \in Accounts : EditPlace(c, i, a) /\ Connect(c, i, a)
    \/ \E c \in EditSenders, m \in MsgSessionIds, it \in DeleteTargets, v \in ClientVersions :
           nOps < MaxSyncOps /\ ReceiveVersioned(c, m, it, v)
    \/ \E c \in ConnIds : TargetRead(c, FALSE)
    \/ \E c \in ConnIds : MutWrite(c)
    \/ \E c \in ConnIds : Broadcast(c)
    \/ \E c \in ConnIds : GatherDone(c)
    \/ \E t \in sends : Send(t, FALSE)
    \/ \E i \in Instances : ListenerReceive(i)

SpecStale == InitOrder /\ [][NextStale]_vars

\* ------------------------------------------------------------------ claims
\* the state a reader fetches for account a (get_active_session_state_by_user)
Fetched(st, a) == ActiveStateByUser(sessions, st, a)

HasItem(state, id) == \E n \in DOMAIN state.items : state.items[n].id = id

\* the connection whose message an operation id was drawn for
Originator(id) == ConnSeq[id \div 100]

\* the ids handle_client_op draws for client operations (slot 0 of Uuid)
IsClientOpId(id) == id > 0 /\ id % 10 = 0

\* C1: every accepted mutation raises the stored version by exactly 1, so a
\* state created at version 0 that took n accepted mutations is stored with
\* version n, whatever the interleaving of the handlers.
C1_VersionCountsMutations ==
    \A k \in StateKeys : store[k] # NoState => store[k].version = accepted[k]

\* C2: the stored version of a (session, account) state never decreases: no
\* write replaces a stored state by one with a smaller version.
C2_VersionNeverDecreases ==
    [][\A k \in StateKeys :
          (store[k] # NoState /\ store'[k] # NoState) => store'[k].version >= store[k].version]_vars

\* the frame a step delivers to c, NoOp when it delivers none
Delivered(c) ==
    IF Len(inbox'[c]) = Len(inbox[c]) + 1 THEN inbox'[c][Len(inbox'[c])] ELSE NoOp

\* C3: when a connection other than the originator receives a mutation
\* operation carrying version v, the state a reader fetches at that moment
\* has version at least v, and at version v it holds that mutation (the
\* added item is there, the deleted item is gone).
C3_PersistedBeforeObservable ==
    [][\A c \in ConnIds :
          LET f == Delivered(c)
              st == Fetched(store', f.account_id)
          IN (f.type \in MutationTypes /\ f.version > 0 /\ Originator(f.id) # c)
             => /\ st # NoState
                /\ st.version >= f.version
                /\ st.version = f.version =>
                      (HasItem(st, f.payload.item) <=> f.type = EXERCISE_ADD)]_vars

\* the connections of instance i whose ConnectionInfo.session_id is S
BoundTo(i, S) == {c \in DOMAIN connections[i] : connections[i][c].session_id = S}

Registered(c) == home[c] # None /\ c \in DOMAIN connections[home[c]]

\* the positions of the frames with operation id in what c has received
Copies(c, id) == {n \in DOMAIN inbox[c] : inbox[c][n].id = id}

\* nothing is queued and no send is scheduled
Drained == sends = {} /\ \A i \in Instances : bus[i] = <<>>

\* C4: an instance is subscribed to the channel of session S if and only if
\* at least one of its registered connections is bound to S (no task is ever
\* inside a locked section between two states of the model, so every state
\* is one the claim speaks of).
C4_SubscribedIffBound ==
    \A i \in Instances, S \in SessionIds : S \in subs[i] <=> BoundTo(i, S) # {}

\* the only bound connection of an instance moved from s1 to s2
C4_Witness ==
    \E i \in Instances : subs[i] = {"s2"} /\ BoundTo(i, "s2") # {} /\ BoundTo(i, "s1") = {}

\* C5: a connection id is in the session_connections set of S exactly when
\* it is registered with ConnectionInfo.session_id = S, so it is in at most
\* one set, also after joining a session twice or switching sessions.
C5_OneSessionPerConnection ==
    \A i \in Instances, S \in SessionIds, c \in ConnIds :
        c \in DictGet(session_connections[i], S, {})
            <=> (c \in DOMAIN connections[i] /\ connections[i][c].session_id = S)

\* a connection that was bound to s1 joined s2, and joined s2 again
C5_Witness ==
    \E c \in ConnIds :
        /\ Registered(c) /\ pc[c] = "idle"
        /\ connections[home[c]][c].session_id = "s2"
        /\ Cardinality({n \in DOMAIN inbox[c] : inbox[c][n].type = SESSION_SYNC
                                                /\ inbox[c][n].session_id = "s2"}) = 2

\* operation id was published on the channel of S while instance i was
\* subscribed to it
PublishedTo(id, S, i) ==
    \E p \in published : p.op = id /\ p.channel = S /\ i \in p.subscribers

\* the ids connection c1 can draw for the operations it broadcasts: the
\* client operation and the two participant relays of each message
RemoteIds ==
    {100 * ConnRank("c1") + 10 * k + slot : k \in 1..MaxSyncOps, slot \in {0, 2, 3}}

\* the operation is queued for the listener of i2, published by i1 while i2
\* was subscribed, and c2 is bound to its session
Awaited(id) ==
    \E p \in published :
        /\ p.op = id /\ "i2" \in p.subscribers
        /\ home[Originator(id)] = "i1"
        /\ \E n \in DOMAIN bus["i2"] : bus["i2"][n].id = id
        /\ "c2" \in BoundTo("i2", p.channel)

\* c2 holds the operation, or is no longer registered and bound to its session
Settled(id) ==
    \/ Copies("c2", id) # {}
    \/ \A p \in published : p.op = id => "c2" \notin BoundTo("i2", p.channel)

\* C6: with c1 on instance i1 and c2 on instance i2, an operation that i1
\* publishes for a session while c2 is bound to it is delivered to c2 exactly
\* once: c2 never holds two copies of an operation of another instance, the
\* operation is queued for the listener of i2 when it is published, and once
\* queued it reaches c2 unless c2 stops being registered and bound to the
\* session.
C6_RemoteExactlyOnce ==
    /\ [](\A c \in ConnIds : \A m, n \in DOMAIN inbox[c] :
             (inbox[c][m].id = inbox[c][n].id
                /\ inbox[c][m].instance_id \notin {None, home[c]}) => m = n)
    /\ [](\A p \in published : home[Originator(p.op)] = "i1" => p.op \in RemoteIds)
    /\ [][\A p \in published' \ published :
             (home[Originator(p.op)] = "i1" /\ "i2" \in p.subscribers)
                 => \E n \in DOMAIN bus'["i2"] : bus'["i2"][n].id = p.op]_vars
    /\ \A id \in RemoteIds : Awaited(id) ~> Settled(id)

\* c2 holds an operation that instance i1 published
C6_Witness ==
    \E n \in DOMAIN inbox["c2"] :
        /\ inbox["c2"][n].instance_id = "i1"
        /\ PublishedTo(inbox["c2"][n].id, inbox["c2"][n].session_id, "i2")

\* C7: the listener starts no send for a message its own instance published,
\* and a connection holds at most one copy of an operation that its own
\* instance produced.
C7_OwnOriginAtMostOnce ==
    /\ \A t \in sends : t.owner \in Instances => t.op.instance_id # t.owner
    /\ \A c \in ConnIds : \A m, n \in DOMAIN inbox[c] :
          (inbox[c][m].id = inbox[c][n].id /\ inbox[c][m].instance_id = home[c]) => m = n

\* a connection holds an operation of its own instance, which was subscribed
\* when it published, and the listener has taken everything queued
C7_Witness ==
    \E c \in ConnIds : \E n \in DOMAIN inbox[c] :
        /\ inbox[c][n].instance_id = home[c]
        /\ PublishedTo(inbox[c][n].id, inbox[c][n].session_id, home[c])
        /\ Drained

C9_SenderExcluded ==
    /\ \A c \in ConnIds :
          (pc[c] = "idle" /\ cur[c] # NoOp) =>
              ((cur[c].session_id # Empty
                  /\ cur[c].type \notin {HEARTBEAT, SYNC_REQUEST, SYNC_RESPONSE})
               <=> \E p \in published : p.op = cur[c].id /\ p.channel = cur[c].session_id)
    /\ \A c \in ConnIds : \A n \in DOMAIN inbox[c] :
          IsClientOpId(inbox[c][n].id) => Originator(inbox[c][n].id) # c

\* an operation of c reached another connection of the same instance while
\* c stayed bound to the session of the operation
C9_Witness ==
    \E c, d \in ConnIds : \E n \in DOMAIN inbox[d] :
        /\ c # d /\ home[c] = home[d]
        /\ IsClientOpId(inbox[d][n].id) /\ Originator(inbox[d][n].id) = c
        /\ c \in BoundTo(home[c], inbox[d][n].session_id)
        /\ pc[c] = "idle" /\ Drained

\* the gather of the broadcast c is in has run all its sends
GatherReturns(c) == pc[c] = "gather" /\ \A t \in sends : t.owner # c

\* C10: when the gather of a fan-out returns, every targeted connection that
\* is still registered holds the operation, whatever sends failed; a
\* connection whose socket is open is still registered (a failed send
\* disconnects the connection it was for and no other); the caller goes on.
C10_FailedSendIsolated ==
    /\ \A c \in ConnIds :
          GatherReturns(c) =>
              /\ \A d \in bcast[c].targets :
                    d \in DOMAIN connections[home[c]] => Copies(d, bcast[c].op.id) # {}
              /\ ENABLED GatherDone(c)
    /\ \A d \in ConnIds : sock[d] = "open" => Registered(d)

\* a gather with two targets returns: the send to one failed, the other
\* holds the operation
C10_Witness ==
    \E c, d, e \in ConnIds :
        /\ GatherReturns(c) /\ d # e /\ {d, e} \subseteq bcast[c].targets
        /\ sock[d] = "failed"
        /\ Copies(e, bcast[c].op.id) # {}

\* the connection is registered on its instance and bound to no session
Unbound(c) ==
    /\ home[c] \in Instances
    /\ c \in DOMAIN connections[home[c]]
    /\ connections[home[c]][c].session_id = None

\* C11: a connection bound to no session that sends an operation starts no
\* broadcast of it: the message it sends is not routed to
\* broadcast_to_session when it is received, and no connection that routes
\* the operation it sent (a session_leave unbinds on the way and is left out)
\* is unbound.
C11_UnboundNeverBroadcasts ==
    /\ [][\A c \in ConnIds :
            (Unbound(c) /\ pc[c] = "idle" /\ seq'[c] = seq[c] + 1) => pc'[c] # "bcast"]_vars
    /\ [](\A c \in ConnIds :
            (pc[c] = "bcast" /\ bcast[c].after = "idle" /\ bcast[c].op.id = cur[c].id
               /\ cur[c].type # SESSION_LEAVE)
                => ~Unbound(c))

\* the client-error replies connection c holds that answer an operation
ErrorReplies(c) ==
    {n \in DOMAIN inbox[c] : inbox[c][n].payload.k = "error" /\ inbox[c][n].correlation_id # 0}

\* C12: an operation whose handler failed is reported to its sender only:
\* when a connection holds the client-error reply to an operation, that
\* operation was not published on a session channel and no other connection
\* holds it.
C12_FailedOpNotBroadcast ==
    \A c \in ConnIds : \A n \in ErrorReplies(c) :
        /\ \A p \in published : p.op # inbox[c][n].correlation_id
        /\ \A d \in ConnIds \ {c} : Copies(d, inbox[c][n].correlation_id) = {}

\* the kinds whose handler looks for a target in the state
SeekingTypes == TargetTypes \cup {EXERCISE_DELETE}

\* the state holds no item with the exercise_id of the operation or, for
\* set_complete, no item with that id that holds the set_id
TargetMissing(state, op) ==
    IF op.type = SET_COMPLETE
    THEN \A n \in DOMAIN state.items :
            state.items[n].id = op.payload.item
                => \A m \in DOMAIN state.items[n].sets :
                      state.items[n].sets[m].id # op.payload.set
    ELSE ~HasItem(state, op.payload.item)

C14_FailedSaveSurfaced ==
    [][\A c \in ConnIds :
          (/\ pc[c] = "mut_write" /\ pc'[c] # "mut_write"
           /\ store'[<<local[c].session_id, local[c].account_id>>] # local[c])
              => /\ Len(inbox'[c]) = Len(inbox[c]) + 1
                 /\ inbox'[c][Len(inbox'[c])].payload.k = "error"
                 /\ cur'[c].version = cur[c].version
                 /\ pc'[c] # "bcast"]_vars

\* the session is ACTIVE and the account is its owner or one of its
\* participants
Joinable(s, a) == sessions[s].status = "active" /\ IsMember(sessions, s, a)

\* C15: session_join binds the connection to the session only if the
\* session is ACTIVE and the account of the connection is its owner or a
\* participant; in every other case the join is answered with an error when
\* it is received (unless the socket fails) and leaves the binding of the
\* connection and the session index as they were.
C15_JoinRequiresActiveMember ==
    /\ [][\A c \in ConnIds :
            (/\ pc[c] = "join_bind" /\ pc'[c] # "join_bind"
             /\ c \in DOMAIN connections'[home[c]]
             /\ connections'[home[c]][c].session_id = cur[c].payload.session_id)
                => Joinable(cur[c].payload.session_id, acct[c])]_vars
    /\ [][\A c \in ConnIds :
            (/\ pc[c] = "idle" /\ seq'[c] = seq[c] + 1 /\ cur'[c] # cur[c]
             /\ cur'[c].type = SESSION_JOIN
             /\ ~Joinable(cur'[c].payload.session_id, acct[c]))
                => \/ sock'[c] = "failed"
                   \/ /\ connections' = connections
                      /\ session_connections' = session_connections
                      /\ pc'[c] \notin {"join_leave", "join_bind"}
                      /\ Len(inbox'[c]) = Len(inbox[c]) + 1
                      /\ inbox'[c][Len(inbox'[c])].payload.k = "error"]_vars

\* the frame appended to the inbox of c by the step, when there is one
Appended(c) == inbox'[c][Len(inbox'[c])]

\* C16: when handle_session_join has bound a connection to session S and the
\* connection is still registered with a working socket, the step that ends
\* the join sends it a session_sync for S that carries the stored state of
\* (S, account); a state that was created by the join has version 0 and no
\* items.
C16_JoinSyncsOwnState ==
    [][\A c \in ConnIds :
        LET S == cur[c].payload.session_id
            a == cur[c].account_id
        IN (/\ pc[c] \in {"join_state", "join_create"}
            /\ pc'[c] \notin {"join_state", "join_create"}
            /\ c \in DOMAIN connections[home[c]]
            /\ connections[home[c]][c].session_id = S
            /\ sock'[c] = "open")
              => /\ Len(inbox'[c]) = Len(inbox[c]) + 1
                 /\ Appended(c).type = SESSION_SYNC
                 /\ Appended(c).session_id = S
                 /\ Appended(c).correlation_id = cur[c].id
                 /\ store'[<<S, a>>] # NoState
                 /\ Appended(c).payload.session_id = S
                 /\ Appended(c).payload.items = store'[<<S, a>>].items
                 /\ Appended(c).version = store'[<<S, a>>].version
                 /\ (store[<<S, a>>] = NoState
                       => Appended(c).version = 0 /\ Appended(c).payload.items = <<>>)]_vars

\* the step receives a sync_request on c
ReceivesSync(c) ==
    pc[c] = "idle" /\ seq'[c] = seq[c] + 1 /\ cur'[c] # cur[c] /\ cur'[c].type = SYNC_REQUEST

ReceivesMalformed(c) == pc[c] = "idle" /\ seq'[c] = seq[c] + 1 /\ cur'[c] = cur[c]

\* C18: a text that is not JSON, has no "type" or has a "type" that is not
\* an operation kind never closes the socket and changes neither the
\* registry nor any state; unless the send of the reply fails, the
\* connection receives a session_update client error, stays registered with
\* its binding, and the endpoint is back in receive_text for the next
\* message.
C18_MalformedKeepsConnection ==
    [][\A c \in ConnIds :
        ReceivesMalformed(c)
          => /\ sock'[c] \in {"open", "failed"}
             /\ store' = store /\ published' = published /\ bus' = bus
             /\ (sock'[c] = "open"
                   => /\ Len(inbox'[c]) = Len(inbox[c]) + 1
                      /\ Appended(c).type = SESSION_UPDATE
                      /\ Appended(c).payload.k = "error"
                      /\ connections' = connections
                      /\ session_connections' = session_connections
                      /\ pc'[c] = "idle"
                      /\ c \in DOMAIN connections'[home'[c]])]_vars

\* c1 received the error reply to a malformed text and, after it, the
\* sync_response to the request it sent next
C18_Witness ==
    \E n \in DOMAIN inbox["c1"] :
        /\ inbox["c1"][n].payload.k = "error" /\ inbox["c1"][n].correlation_id = 0
        /\ \E m \in DOMAIN inbox["c1"] :
              /\ m > n
              /\ inbox["c1"][m].type = SYNC_RESPONSE
              /\ inbox["c1"][m].correlation_id = cur["c1"].id

\* the step receives an exercise_add on c whose handler raises when it
\* builds the item (the handler has found the session and the state)
ReceivesRaising(c) ==
    /\ pc[c] = "idle" /\ seq'[c] = seq[c] + 1 /\ cur'[c] # cur[c]
    /\ cur'[c].type = EXERCISE_ADD /\ cur'[c].payload.k = "add_invalid"
    /\ cur'[c].session_id # Empty
    /\ Fetched(store, cur'[c].account_id) # NoState

\* C19: when a registered handler raises, the exception stays inside the
\* dispatcher (the socket stays open, the connection registered, the store
\* unchanged, the task goes on in _route_op) and the sender is sent a client
\* error that answers the operation.
C19_HandlerErrorReplied ==
    [][\A c \in ConnIds :
        ReceivesRaising(c)
          => /\ sock'[c] = "open"
             /\ connections' = connections
             /\ store' = store
             /\ pc'[c] \in {"idle", "bcast"}
             /\ Len(inbox'[c]) = Len(inbox[c]) + 1
             /\ Appended(c).payload.k = "error"
             /\ Appended(c).correlation_id = cur'[c].id]_vars

\* the step receives a client message on c that decodes into an operation
ReceivesOp(c) == pc[c] = "idle" /\ seq'[c] = seq[c] + 1 /\ cur'[c] # cur[c]

\* C20: the operation handle_client_op builds carries the account of the
\* connection whatever account id the message carried, keeps it while it is
\* handled and broadcast, and a participant state is written only under the
\* account of the connection whose handler writes it.
C20_ActorIsConnectionAccount ==
    /\ [][\A c \in ConnIds : ReceivesOp(c) => cur'[c].account_id = acct[c]]_vars
    /\ [](\A c \in ConnIds : cur[c] # NoOp => cur[c].account_id = acct[c])
    /\ [](\A c \in ConnIds :
            (pc[c] \in {"bcast", "gather"} /\ bcast[c].op.id = cur[c].id)
               => bcast[c].op.account_id = acct[c])
    /\ [](\A c, d \in ConnIds : \A n \in Copies(d, cur[c].id) :
            cur[c] # NoOp => inbox[d][n].account_id = acct[c])
    /\ [][\A key \in StateKeys :
            store'[key] # store[key]
              => \E c \in ConnIds :
                    /\ acct[c] = key[2]
                    /\ pc[c] \in {"join_create", "mut_write"}
                    /\ pc'[c] # pc[c]]_vars

\* c1, the socket of a1, sent an exercise_update that carried the account
\* id of a2: the state of a1 holds the change, the socket of a2 received the
\* operation in the name of a1, and a2 has no state
C20_Witness ==
    /\ acct["c1"] = "a1" /\ carried["c1"] = "a2"
    /\ cur["c1"].type = EXERCISE_UPDATE /\ cur["c1"].version > 0
    /\ store[<<cur["c1"].session_id, "a1">>].version = cur["c1"].version
    /\ store[<<cur["c1"].session_id, "a2">>] = NoState
    /\ acct["c2"] = "a2"
    /\ \E n \in Copies("c2", cur["c1"].id) : inbox["c2"][n].account_id = "a1"

\* the order field of every item is its position in the list
Contiguous(items) == \A n \in DOMAIN items : items[n].order = n

\* C21: when the save of an exercise_delete completes, the stored state
\* holds the items the handler read without the deleted one, in the same
\* list order, and the order field of every one of them is its position
\* 1, 2, ..., k, whatever the order fields were before.
C21_DeleteRenumbersItems ==
    [][\A c \in ConnIds :
        LET key == <<local[c].session_id, local[c].account_id>>
            before == Fetched(store, cur[c].account_id).items
        IN (/\ pc[c] = "mut_write" /\ pc'[c] # "mut_write"
            /\ cur[c].type = EXERCISE_DELETE
            /\ accepted'[key] = accepted[key] + 1)
              => /\ Contiguous(store'[key].items)
                 /\ ~HasItem(store'[key], cur[c].payload.item)
                 /\ Len(store'[key].items) = Len(before) - 1
                 /\ \A n \in DOMAIN store'[key].items :
                       \E m \in DOMAIN before :
                          /\ before[m].id = store'[key].items[n].id
                          /\ m \in {n, n + 1}]_vars

\* c1 was shown a state whose second item had order 7 when it connected,
\* deleted the first item, and the stored state now holds the second item
\* alone with order 1
C21_Witness ==
    /\ cur["c1"].type = EXERCISE_DELETE /\ cur["c1"].version > 0
    /\ Len(inbox["c1"]) >= 2
    /\ inbox["c1"][2].type = SESSION_SYNC
    /\ Len(inbox["c1"][2].payload.items) = 2
    /\ inbox["c1"][2].payload.items[2].order = 7
    /\ inbox["c1"][2].payload.items[1].id = cur["c1"].payload.item
    /\ store[<<"s1", "a1">>].version = cur["c1"].version
    /\ Len(store[<<"s1", "a1">>].items) = 1
    /\ store[<<"s1", "a1">>].items[1].id = inbox["c1"][2].payload.items[2].id
    /\ store[<<"s1", "a1">>].items[1].order = 1

\* the state holds an item with the id that holds a set with the id
HoldsSet(state, item, set) ==
    \E n \in DOMAIN state.items :
        /\ state.items[n].id = item
        /\ \E k \in DOMAIN state.items[n].sets : state.items[n].sets[k].id = set

\* C22: when a set_delete that names a set of the sender's state has been
\* dispatched without an error and is handed to the broadcast, the state no
\* longer holds the set and the order field of every remaining set of the
\* item is its position 1, 2, ..., k.
C22_SetDeleteRenumbersSets ==
    [][\A c \in ConnIds :
        LET op == cur'[c]
            before == Fetched(store, op.account_id)
            after == Fetched(store', op.account_id)
        IN (/\ ReceivesOp(c) /\ op.type = SET_DELETE
            /\ pc'[c] = "bcast"
            /\ Len(inbox'[c]) = Len(inbox[c])
            /\ before # NoState
            /\ HoldsSet(before, op.payload.item, op.payload.set))
              => /\ ~HoldsSet(after, op.payload.item, op.payload.set)
                 /\ \A n \in DOMAIN after.items :
                       after.items[n].id = op.payload.item => Contiguous(after.items[n].sets)]_vars

\* the step takes c out of the connection map of its instance
Disconnects(c) ==
    home[c] \in Instances /\ c \in DOMAIN connections[home[c]]
                           /\ c \notin DOMAIN connections'[home[c]]

\* C23: the step in which disconnect removes c from the connection map also
\* removes it from the set of its account and the set of its session, drops
\* the subscription of the instance to the session exactly when no other
\* connection of the instance is bound to it, removes the mirror entry of c
\* and ends the socket; the disconnect the endpoint runs afterwards for the
\* same connection changes nothing; and once the socket of c has ended, c
\* stays out of the connection map, of the indexes and of the mirror.
C23_DisconnectIsFullTeardown ==
    /\ [][\A c \in ConnIds :
            Disconnects(c)
              => LET i == home[c]
                     sess == connections[i][c].session_id
                 IN /\ \A a \in DOMAIN account_connections'[i] : c \notin account_connections'[i][a]
                    /\ \A S \in DOMAIN session_connections'[i] : c \notin session_connections'[i][S]
                    /\ sess # None =>
                          (sess \in subs'[i] <=> DictGet(session_connections[i], sess, {}) \ {c} # {})
                    /\ \A S \in subs[i] \ {sess} : S \in subs'[i]
                    /\ c \notin DOMAIN mirror'
                    /\ sock'[c] \in {"failed", "closed"}]_vars
    /\ [][\A c \in ConnIds :
            (home[c] \in Instances /\ c \notin DOMAIN connections[home[c]]
             /\ pc[c] = "idle" /\ pc'[c] = "closed")
              => /\ connections' = connections
                 /\ account_connections' = account_connections
                 /\ session_connections' = session_connections
                 /\ subs' = subs /\ mirror' = mirror
                 /\ sock' = sock /\ inbox' = inbox]_vars
    /\ [](\A c \in ConnIds :
            sock[c] \in {"failed", "closed"}
              => /\ c \notin DOMAIN connections[home[c]]
                 /\ \A a \in DOMAIN account_connections[home[c]] :
                       c \notin account_connections[home[c]][a]
                 /\ \A S \in DOMAIN session_connections[home[c]] :
                       c \notin session_connections[home[c]][S]
                 /\ c \notin DOMAIN mirror)

\* C24: stop() disconnects every local connection before it cancels the
\* listener task and waits for that task; when stop() has returned the
\* connection map, the session index and the account index of the instance
\* are empty, it holds no subscription and its listener has ended, also when
\* a connect() or a join_session() was in flight when stop() began
C24_StopTearsDown ==
    /\ [][\A i \in Instances :
              service[i].stop = "cancel" /\ service'[i].stop = "await"
              => connections[i] = EmptyDict]_vars
    /\ [][\A i \in Instances :
              service[i].stop = "await" /\ service'[i].stop = "done"
              => service[i].pubsub_task = "ended"]_vars
    /\ [](\A i \in Instances :
              service[i].stop = "done"
              => /\ connections[i] = EmptyDict
                 /\ session_connections[i] = EmptyDict
                 /\ account_connections[i] = EmptyDict
                 /\ subs[i] = {}
                 /\ service[i].pubsub_task = "ended")

\* stop() has returned on i1 after it disconnected both sockets, while the
\* join_session of c1 that passed its running check before stop() began is
\* still waiting for its second locked section
C24_Witness ==
    /\ service["i1"].stop = "done"
    /\ sock["c1"] = "closed"
    /\ sock["c2"] = "closed"
    /\ cur["c1"].type = SESSION_JOIN
    /\ pc["c1"] = "join_bind"

Handling(c) == pc[c] \notin {"new", "connecting", "idle", "closed"}

\* C26: the messages of one connection are handled in the order they were
\* received and one at a time: when the next message of c is taken, the task
\* of c is back in receive_text, it awaits no broadcast and none of the sends
\* of its gathers is pending; and the operation a task is handling is the
\* one built from the last message received
C26_OneAtATime ==
    /\ [][\A c \in ConnIds :
              seq'[c] # seq[c]
              => /\ seq'[c] = seq[c] + 1
                 /\ pc[c] = "idle"
                 /\ bcast[c] = NoBcast
                 /\ \A t \in sends : t.owner # c]_vars
    /\ [](\A c \in ConnIds :
              Handling(c) => cur[c].id = 100 * ConnRank(c) + 10 * seq[c])

\* the second message of c1 is being handled after its first one, an
\* exercise_add, was saved, published and sent to c2
C26_Witness ==
    /\ seq["c1"] = 2
    /\ Handling("c1")
    /\ accepted[<<"s1", "a1">>] = 1
    /\ \E p \in published : p.op = 100 * ConnRank("c1") + 10
    /\ \E n \in DOMAIN inbox["c2"] : inbox["c2"][n].id = 100 * ConnRank("c1") + 10

\* _route_op starts the broadcast of the operation the task of c has handled
RoutesOut(c) ==
    /\ pc[c] # "bcast"
    /\ pc'[c] = "bcast"
    /\ bcast'[c].after = "idle"
    /\ bcast'[c].op = cur'[c]

\* C27: a mutation operation that is broadcast carries the version its
\* handler stamped after the mutation, which is the version of the state the
\* mutation stored: when _route_op starts the broadcast, the state of the
\* actor in its active session is stored with the version raised by one and
\* the operation carries that version
C27_BroadcastCarriesStoredVersion ==
    [][\A c \in ConnIds :
          RoutesOut(c) /\ cur'[c].type \in MutationTypes \cup TargetTypes
          => LET old == ActiveStateByUser(sessions, store, cur'[c].account_id)
                 new == ActiveStateByUser(sessions', store', cur'[c].account_id)
             IN /\ old # NoState
                /\ new # NoState
                /\ new.version = old.version + 1
                /\ cur'[c].version = new.version]_vars

\* C28: a participant state is created, with version 0 and no items, only
\* for a session that is ACTIVE
C28_CreatedOnlyForActive ==
    [][\A k \in StateKeys :
          store[k] = NoState /\ store'[k] # NoState
          => /\ sessions[k[1]].status = "active"
             /\ store'[k] = NewState(k[1], k[2])]_vars

\* the handler of an exercise_add of c ends its first repository call while
\* c is bound to the ACTIVE session the operation names and the account has
\* no state
FirstMutation(c) ==
    /\ pc[c] = "mut_read"
    /\ pc'[c] # "mut_read"
    /\ cur[c].type = EXERCISE_ADD
    /\ c \in DOMAIN connections[home[c]]
    /\ connections[home[c]][c].session_id = cur[c].session_id
    /\ cur[c].session_id \in SessionIds
    /\ sessions[cur[c].session_id].status = "active"
    /\ ActiveStateByUser(sessions, store, cur[c].account_id) = NoState

\* C29: a participant bound to an active session whose first mutation
\* arrives before it has a state gets no error: a state is created and the
\* handler goes on to save it with the mutation applied
C29_StateCreatedOnFirstMutation ==
    [][\A c \in ConnIds :
          FirstMutation(c)
          => /\ inbox'[c] = inbox[c]
             /\ pc'[c] = "mut_write"
             /\ local'[c] # NoState
             /\ Len(local'[c].items) = 1]_vars

\* the connections instance i holds for session sid after the step
LocalAfter(i, sid) == DictGet(session_connections'[i], sid, {})

\* the task of c runs the broadcast_to_session of the relay join_session
\* emits: of its implicit leave (next = "join_bind") or of its bind
\* (next = "join_state")
RelaysOut(c, next) ==
    /\ pc[c] = "bcast"
    /\ bcast[c].after = next
    /\ bcast'[c] # bcast[c]

\* the step gave every connection of ids a send of op and published op on
\* the channel of sid
FansOut(ids, op, sid) ==
    /\ \A t \in ids : \E u \in sends' : u.target = t /\ u.op = op
    /\ \E p \in published' : p.op = op.id /\ p.channel = sid

\* C30: join_session(c, S2) on a connection bound to another session S1
\* first leaves S1: c is unbound and removed from the index of S1, the
\* instance stays subscribed to S1 only while it holds a connection of S1,
\* and a participant_leave is published on S1 and sent to every connection
\* the instance still holds for S1.  Then it binds: c is bound to S2 and to
\* no other session, the instance is subscribed to S2, and a
\* participant_join is published on S2 and sent to every connection of S2
\* but c.  When the gather of a relay returns, every target that is still
\* connected holds the relay; c never holds its own participant_join.
C30_JoinLeavesThenBinds ==
    /\ [][\A c \in ConnIds :
              pc[c] = "join_leave" /\ pc'[c] = "bcast" /\ bcast'[c].after = "join_bind"
              => LET i == home[c]
                     S1 == connections[i][c].session_id
                 IN /\ S1 \in SessionIds
                    /\ S1 # cur[c].payload.session_id
                    /\ connections'[i][c].session_id = None
                    /\ c \notin LocalAfter(i, S1)
                    /\ S1 \in subs'[i] <=> LocalAfter(i, S1) # {}
                    /\ bcast'[c].op.type = PARTICIPANT_LEAVE
                    /\ bcast'[c].session_id = S1
                    /\ bcast'[c].exclude = None]_vars
    /\ [][\A c \in ConnIds :
              RelaysOut(c, "join_bind")
              => FansOut(LocalConnIds(home[c], bcast[c].session_id), bcast[c].op,
                         bcast[c].session_id)]_vars
    /\ [][\A c \in ConnIds :
              pc[c] = "join_bind" /\ pc'[c] = "bcast" /\ bcast'[c].after = "join_state"
              => LET i == home[c]
                     S2 == cur[c].payload.session_id
                 IN /\ connections'[i][c].session_id = S2
                    /\ c \in LocalAfter(i, S2)
                    /\ \A s \in SessionIds \ {S2} : c \notin LocalAfter(i, s)
                    /\ S2 \in subs'[i]
                    /\ bcast'[c].op.type = PARTICIPANT_JOIN
                    /\ bcast'[c].session_id = S2
                    /\ bcast'[c].exclude = c]_vars
    /\ [][\A c \in ConnIds :
              RelaysOut(c, "join_state")
              => /\ FansOut(LocalConnIds(home[c], bcast[c].session_id) \ {c}, bcast[c].op,
                            bcast[c].session_id)
                 /\ \A u \in sends' : u.op = bcast[c].op => u.target # c]_vars
    /\ [][\A c \in ConnIds :
              /\ pc[c] = "gather"
              /\ pc'[c] # "gather"
              /\ bcast[c].op.type \in {PARTICIPANT_JOIN, PARTICIPANT_LEAVE}
              => \A t \in bcast[c].targets :
                     t \in DOMAIN connections[home[c]] /\ sock[t] = "open"
                     => \E n \in DOMAIN inbox[t] : inbox[t][n] = bcast[c].op]_vars
    /\ [](\A c \in ConnIds : \A n \in DOMAIN inbox[c] :
              inbox[c][n].type = PARTICIPANT_JOIN
              => ~(inbox[c][n].id \div 100 = ConnRank(c) /\ inbox[c][n].id % 10 = 3))

\* c2 of a2, on the instance of c1, joined s2 from s1 and then s1 from s2:
\* c1 holds the participant_leave and then the participant_join of a2 for
\* s1, c2 is bound to s1 again and the instance has dropped the channel of s2
C30_Witness ==
    /\ home["c2"] = "i1"
    /\ "c2" \in DOMAIN connections["i1"]
    /\ connections["i1"]["c2"].session_id = "s1"
    /\ "c2" \in LocalConnIds("i1", "s1")
    /\ "s2" \notin subs["i1"]
    /\ \E n, m \in DOMAIN inbox["c1"] :
           /\ n < m
           /\ inbox["c1"][n].type = PARTICIPANT_LEAVE
           /\ inbox["c1"][n].session_id = "s1"
           /\ inbox["c1"][n].account_id = "a2"
           /\ inbox["c1"][m].type = PARTICIPANT_JOIN
           /\ inbox["c1"][m].session_id = "s1"
           /\ inbox["c1"][m].account_id = "a2"

\* C31: an operation whose version is lower than the stored one is not
\* refused: when the handler of an exercise_update has fetched a state that
\* holds the target, it sends no error and goes on to save the state a fresh
\* operation would produce from the stored one, whatever version the
\* operation carries; the save stores that state with the version raised by
\* one
C31_StaleApplied ==
    /\ [][\A c \in ConnIds :
              /\ pc[c] = "tgt_read"
              /\ pc'[c] # "tgt_read"
              /\ cur[c].type = EXERCISE_UPDATE
              /\ cur[c].payload.k = EXERCISE_UPDATE
              => LET state == ActiveStateByUser(sessions, store, cur[c].account_id)
                 IN state # NoState /\ HasItem(state, cur[c].payload.item)
                    => /\ inbox'[c] = inbox[c]
                       /\ pc'[c] = "mut_write"
                       /\ local'[c].items = UpdateItem(state.items, cur[c].payload.item)
                       /\ local'[c].version = state.version + 1]_vars
    /\ [][\A c \in ConnIds :
              pc[c] = "mut_write" /\ pc'[c] # "mut_write" /\ cur[c].type = EXERCISE_UPDATE
              => /\ store'[<<local[c].session_id, local[c].account_id>>] = local[c]
                 /\ cur'[c].version = local[c].version]_vars

\* the handler is about to save the update of an operation that carried
\* version 1 while the stored state has a higher version
C31_Witness ==
    /\ pc["c1"] = "mut_write"
    /\ cur["c1"].type = EXERCISE_UPDATE
    /\ cur["c1"].version = 1
    /\ store[<<"s1", "a1">>].version > 1
    /\ local["c1"].version = store[<<"s1", "a1">>].version + 1

\* C32: in every stored participant state the i-th item of the list has
\* order i
C32_OrdersContiguous ==
    \A k \in StateKeys : store[k] # NoState => Contiguous(store[k].items)

\* nothing is in flight for c: its endpoint task handles no message and no
\* send of a gather it awaited is pending
Quiet(c) == pc[c] \in {"idle", "closed"} /\ \A t \in sends : t.owner # c

\* C33: once disconnect has removed c and ended its socket, and nothing is
\* in flight for c any more, the registry mirror holds no entry for c
C33_NoMirrorEntryForDead ==
    \A c \in ConnIds :
        /\ sock[c] \in {"failed", "closed"}
        /\ home[c] \in Instances
        /\ c \notin DOMAIN connections[home[c]]
        /\ Quiet(c)
        => c \notin DOMAIN mirror

\* The named-session scenario: from the stored states of the ordering
\* scenario, the client of c1, bound to s1, sends exercise_add and
\* exercise_delete messages that name a session id, or none.
NextNamed ==
    \/ \E c \in ConnIds, i \in Instances, a \in Accounts : EditPlace(c, i, a) /\ Connect(c, i, a)
    \/ \E c \in EditSenders, m \in FieldSessionIds, ty \in MutationTypes, it \in DeleteTargets :
           nOps < MaxSyncOps /\ ReceiveMutation(c, ty, m, it, FALSE)
    \/ \E c \in ConnIds : MutRead(c, FALSE)
    \/ \E c \in ConnIds : MutWrite(c)
    \/ \E c \in ConnIds : Broadcast(c)
    \/ \E c \in ConnIds : GatherDone(c)
    \/ \E t \in sends : Send(t, FALSE)
    \/ \E i \in Instances : ListenerReceive(i)

SpecNamed == InitOrder /\ [][NextNamed]_vars

\* C34: a mutation operation handed to broadcast_to_session goes to the
\* session its sender is bound to, and the state the handler saved for it
\* is a state of that session: the step of a mutation handler that saves
\* its copy and starts the broadcast names, as the session of the broadcast,
\* the session of the saved state and the session of the connection.
C34_BroadcastOfBoundSession ==
    [][\A c \in ConnIds :
          (pc[c] = "mut_write" /\ pc'[c] = "bcast")
              => /\ bcast'[c].session_id = local[c].session_id
                 /\ bcast'[c].op.session_id = local[c].session_id
                 /\ c \in DOMAIN connections[home[c]]
                       => bcast'[c].session_id = connections[home[c]][c].session_id]_vars

\* The cursor scenario: the sockets of a1 and a2 on instance i1, both bound
\* to s1; both clients move their cursor.
NextCursor ==
    \/ \E c \in ConnIds, i \in Instances, a \in Accounts : EditPlace(c, i, a) /\ Connect(c, i, a)
    \/ \E c \in ConnIds, m \in FieldSessionIds, v \in CursorValues \cup {BadCursor} :
           ReceiveCursor(c, m, v)
    \/ \E c \in ConnIds : CursorRead(c)
    \/ \E c \in ConnIds : CursorWrite(c)
    \/ \E c \in ConnIds : Broadcast(c)
    \/ \E c \in ConnIds : GatherDone(c)
    \/ \E t \in sends : Send(t, FALSE)
    \/ \E i \in Instances : ListenerReceive(i)

SpecCursor == Init /\ [][NextCursor]_vars

\* the handler of connection c has stored the cursor of its last cursor_move
Moved(c) ==
    /\ pc[c] \notin {"new", "connecting", "cur_read", "cur_write"}
    /\ cur[c].type = CURSOR_MOVE
    /\ cur[c].payload.item \in CursorValues
    /\ cur[c].session_id \in DOMAIN sessions
    /\ cur[c].account_id \in DOMAIN sessions[cur[c].session_id].cursors

\* C35: the write of a cursor_move handler changes, in the stored roster of
\* the session, the cursor of the sender only; and once no cursor_move is
\* being handled, the stored cursor of every participant whose last message
\* was a cursor_move the handler stored is the cursor of that message.
C35_OnlyOwnCursorMoves ==
    /\ [][\A c \in ConnIds : pc[c] = "cur_write" /\ pc'[c] # "cur_write"
              => \A s \in SessionIds : \A a \in DOMAIN sessions[s].cursors :
                     (s # cur[c].session_id \/ a # cur[c].account_id)
                         => sessions'[s].cursors[a] = sessions[s].cursors[a]]_vars
    /\ [](\A c \in ConnIds :
             (Moved(c) /\ \A d \in ConnIds : pc[d] \notin {"cur_read", "cur_write"})
                 => sessions[cur[c].session_id].cursors[cur[c].account_id] = cur[c].payload.item)

\* the operation is one a client sent (handle_client_op built it) and an
\* instance broadcast
ClientSent(op) == op.id >= 100 /\ op.id % 10 = 0 /\ op.instance_id # None

\* C36: a connection that has received two broadcast operations one sender
\* sent has received them in the order the sender sent them.
C36_PerSenderOrder ==
    \A d \in ConnIds : \A m, n \in DOMAIN inbox[d] :
        (/\ m < n
         /\ ClientSent(inbox[d][m]) /\ ClientSent(inbox[d][n])
         /\ Originator(inbox[d][m].id) = Originator(inbox[d][n].id))
            => inbox[d][m].id < inbox[d][n].id

\* a connection on another instance than the sender has received two
\* operations of the sender
C36_Witness ==
    \E d \in ConnIds : \E m, n \in DOMAIN inbox[d] :
        /\ m < n
        /\ ClientSent(inbox[d][m]) /\ ClientSent(inbox[d][n])
        /\ Originator(inbox[d][m].id) = Originator(inbox[d][n].id)
        /\ Originator(inbox[d][m].id) # d
        /\ inbox[d][m].instance_id # home[d]

\* C37: on every instance, a connection id is in the set the account index
\* keeps for account a exactly when the connection is registered with
\* account a; neither index keeps an empty set; and connections_active is
\* the number of registered connections.
C37_IndexIsInverse ==
    \A i \in Instances :
        /\ \A a \in Accounts, c \in ConnIds :
               (a \in DOMAIN account_connections[i] /\ c \in account_connections[i][a])
                   <=> (c \in DOMAIN connections[i] /\ connections[i][c].account_id = a)
        /\ \A a \in DOMAIN account_connections[i] : account_connections[i][a] # {}
        /\ \A s \in DOMAIN session_connections[i] : session_connections[i][s] # {}
        /\ stats[i] = Cardinality(DOMAIN connections[i])

\* two connections registered on one instance, one of them was disconnected
\* and the other has left its session
C37_Witness ==
    \E c, d \in ConnIds :
        /\ c # d /\ home[c] = home[d] /\ home[c] \in Instances
        /\ sock[c] \in {"failed", "closed"}
        /\ c \notin DOMAIN connections[home[c]]
        /\ d \in DOMAIN connections[home[d]]
        /\ connections[home[d]][d].session_id = None
        /\ stats[home[d]] = 1

\* C38: the copy an exercise_update handler is about to save differs from
\* the state it fetched in the targeted item only, and there in no other
\* field than type, rest, meta and participants: the number of items, the
\* other items, and the id, order and sets of the targeted item are those of
\* the fetched state.
C38_UpdateTouchesOnlyContent ==
    [][\A c \in ConnIds :
          (pc[c] = "tgt_read" /\ pc'[c] = "mut_write" /\ cur[c].type = EXERCISE_UPDATE)
              => LET old == ActiveStateByUser(sessions, store, cur[c].account_id).items
                     new == local'[c].items
                 IN /\ Len(new) = Len(old)
                    /\ \A n \in DOMAIN old :
                          /\ new[n].id = old[n].id
                          /\ new[n].order = old[n].order
                          /\ new[n].sets = old[n].sets
                          /\ old[n].id # cur[c].payload.item => new[n] = old[n]]_vars

\* The foreign-publisher scenario: the socket of a1 on i1, the socket of a2
\* on i2; the client of c1 joins and leaves sessions while a publisher that
\* is no instance puts a text that is no operation on a session channel.
\* The listener polls its pubsub for ever and the event loop runs every
\* coroutine that is ready.
BusSenders == {"c1"}

NextBus ==
    \/ \E c \in ConnIds, i \in Instances, a \in Accounts : LivePlace(c, i, a) /\ Connect(c, i, a)
    \/ SyncJoin(BusSenders)
    \/ SyncLeave(BusSenders)
    \/ \E c \in ConnIds : JoinBind(c)
    \/ \E c \in ConnIds : JoinState(c, FALSE)
    \/ \E c \in ConnIds : JoinCreate(c, FALSE)
    \/ \E c \in ConnIds : Broadcast(c)
    \/ \E t \in sends : Send(t, FALSE)
    \/ \E i \in Instances : ListenerReceive(i)
    \/ \E s \in SessionIds : PublishBad(s)

SpecBus ==
    /\ Init
    /\ [][NextBus]_vars
    /\ WF_vars(\E i \in Instances : ListenerReceive(i))
    /\ WF_vars(\E t \in sends : Send(t, FALSE))

\* C39: the listener drops a bus message it cannot parse: the step that
\* takes it schedules no send, delivers nothing and leaves the listener task
\* running; the listener of a running service keeps running; and an
\* operation instance i1 published that is queued for the listener of i2
\* while c2 is bound to its session reaches c2 unless c2 stops being bound to
\* the session, whatever the listener dropped before.
C39_ListenerSurvivesBadMessage ==
    /\ [][\A i \in Instances :
              (bus[i] # <<>> /\ bus'[i] = Tail(bus[i]) /\ ~Parses(Head(bus[i])))
                  => /\ sends' = sends
                     /\ inbox' = inbox
                     /\ service'[i].pubsub_task = "running"]_vars
    /\ [](\A i \in Instances : service[i].running => service[i].pubsub_task = "running")
    /\ \A id \in RemoteIds : Awaited(id) ~> Settled(id)

\* the listener of i2 dropped a message it could not parse, and c2 holds an
\* operation of i1 that was published after that
C39_Witness ==
    /\ dropped["i2"].count > 0
    /\ \E n \in DOMAIN inbox["c2"] :
          /\ inbox["c2"][n].instance_id = "i1"
          /\ inbox["c2"][n].id \notin dropped["i2"].before

\* The scenario of the newer engine: start(), open_connection() and stop()
\* are called on a new ESMService, in any order, while its listener task
\* runs.
NextEsm ==
    \/ EsmStart
    \/ EsmListen
    \/ \E c \in ConnIds, a \in Accounts : EsmOpen(c, a)
    \/ EsmStop

SpecEsm == Init /\ [][NextEsm]_vars

\* start() has completed and stop() has not been called
EsmStarted == esm.starts > 0 /\ ~esm.stopped

\* C40: once start() of the newer engine has completed, the service is
\* running and its listener task has not returned; an open_connection
\* called then registers the connection instead of raising; and a stop()
\* called then leaves no connection, no pubsub and no running listener.
C40_StartedEngineRuns ==
    /\ [](EsmStarted => esm.running /\ esm.pubsub_task = "running")
    /\ [][\A c \in ConnIds :
              (EsmStarted /\ c \notin DOMAIN esm.connections /\ esm.refused[c] = None
                 /\ (c \in DOMAIN esm'.connections \/ esm'.refused[c] # None))
                  => c \in DOMAIN esm'.connections]_vars
    /\ [][(EsmStarted /\ esm'.stopped)
              => /\ DOMAIN esm'.connections = {}
                 /\ ~esm'.pubsub
                 /\ esm'.pubsub_task # "running"]_vars
====
